---- MODULE Spec2Model ----
(***************************************************************************)
(* Model of pyroteus' AdjointMeshSeq (src/pyroteus/adjoint.py) and the     *)
(* parts of MeshSeq (src/pyroteus/mesh_seq.py) and of the mesh-to-mesh     *)
(* projection (src/pyroteus/interpolation.py) it drives.                   *)
(*                                                                         *)
(* Field values are scalars of the ring Z/Modulus (one degree of freedom   *)
(* per function space); the chain rule holds exactly in that ring, so the  *)
(* floating-point tolerances of the code become equalities.  The segment   *)
(* solver, the QoI and the tape (pyadjoint) are external collaborators:    *)
(* the solver is a nonlinear timestepper u <- u*u + c, the QoI is the sum  *)
(* of squares of the fields, and the tape records one solve block per      *)
(* timestep and field.                                                     *)
(***************************************************************************)
EXTENDS Integers, Sequences, FiniteSets, TLC

\* ---------------------------------------------------------------- bounds
MaxN == 3            \* largest number of subintervals
MaxTimesteps == 2    \* largest number of timesteps per subinterval
Modulus == 5         \* field values and scalars live in 0..Modulus-1

None == -1           \* Python's None for a scalar or a Function value
Unset == -2          \* a key that is not in a dict

FieldChoices == {<<"u">>, <<"u", "v">>, <<"u", "uv">>}
Spaces == {1, 2}
Elements == {"P1", "P2"}
ICValues == {1, 2}

VARIABLES
    \* ---- inputs of the run (fixed by Init)
    num_subintervals,    \* len(self)
    fields,              \* self.fields, a sequence of names
    spaceOf,             \* segment -> function space (one mesh per segment)
    icv,                 \* value produced by get_initial_condition
    num_timesteps,       \* time_partition[i].num_timesteps
    timesteps_per_export,\* time_partition.timesteps_per_export[i]
    test_checkpoint_qoi, \* keyword argument of solve_adjoint
    get_adj_values,      \* keyword argument of solve_adjoint
    warn,                \* self.warn
    steady,              \* self.steady
    drift,               \* offset of the solver when it runs annotated
    badCall,             \* which collaborator call returns a wrong field set
    badKind,             \* "missing" or "extra"
    qoi_num_args,        \* positional arguments of the function _get_qoi returns
    qoi_type_kwarg,      \* kwargs['qoi_type'] of the constructor
    untagged,            \* field whose solves the solver does not tag, or ""
    elementOf,           \* segment -> element of the declared function spaces
    odd_block,           \* first timestep from which the solver solves the last
                         \* field in a space of another element, or 0
    over_solve,          \* the solver takes timesteps_per_export steps too many
    unnamed_seg,         \* segment whose solver leaves the lagged Function unnamed, or -2
    clear_tape_flag,     \* solve_forward's clear_tape keyword
    optimized,           \* the interpreter runs with -O: assert statements are skipped
    \* ---- the divisibility check of get_solve_blocks on its own
    num_solve_blocks,    \* len(solve_blocks)
    ratio_timesteps,     \* self.time_partition[subinterval].num_timesteps
    ratio_outcome,       \* "" before the check, then what lines 280-289 did
    round,               \* 1, or 2 for the run of a second object built on
                         \* the same inputs with the other `warnings` flag
    firstOutcome,        \* what the first object's run ended with
    \* ---- a pair of projections between two spaces (dof vectors)
    x_source,            \* x, a Function of space A
    y_target,            \* y, a seed Function of space B
    projected,           \* mesh2mesh_project(x, B), or None
    source_b,            \* mesh2mesh_project_adjoint(y, A), or None
    proj_pc,             \* "idle", or how far the pair of projections got
    \* ---- one call of a kernel of kernel.py
    kernel_d,            \* spatial dimension the kernel was generated for
    kernel_D,            \* eigenvalues returned by the eigensolver
    kernel_Q,            \* eigenvectors returned by the eigensolver (columns)
    EVals,               \* output eigenvalues
    EVecs,               \* output eigenvectors
    kernel_pc,           \* "idle", or the position in the kernel
    \* ---- the symmetrisation loop of the metric_from_hessian kernel
    hessian_d,           \* spatial dimension the kernel was generated for
    hessian_B0,          \* the Hessian passed in, entries indexed <<row, column>>
    hessian_B,           \* B as the loop leaves it
    loop_i,              \* the C variable i
    loop_j,              \* the C variable j
    loop_pc,             \* "idle", or the position in the loop
    visited,             \* index pairs <<i, j>> the loop body ran for, in order
    \* ---- state of the object and of solve_adjoint's frame
    qoi_type,            \* self.qoi_type
    qoi,                 \* self.qoi: "unset", "lambda" or (annotating) "wrapper"
    J,                   \* self.J
    J_chk,
    checkpoints,
    checkpoint_adj,      \* segment -> field -> block_variable.adj_value of the
                         \* checkpoint's Function (None: never written)
    sols,                \* last return value of the solver
    sols_is,             \* what the name sols is bound to: "" (the solver's
                         \* return value) or the field whose archive it is
    lagged_dep_idx,      \* self._lagged_dep_idx
    tape,                \* pyadjoint's working tape
    controls,            \* self.controls
    seeds,
    solutions,           \* the archive
    i,                   \* loop index of the reverse sweep / of get_checkpoints
    fidx,                \* index of the field being extracted
    pc,
    error,               \* "" or the fatal error that ended the run
    warnings,            \* messages passed to self.warning
    \* ---- history
    calls,               \* solver invocations
    qoiEvals,            \* QoI evaluations made from get_checkpoints
    phases,              \* phases of solve_adjoint in the order they ran
    seedRead,            \* segment -> seeds read off the controls
    seedAssigned         \* segment -> adj_value assigned to the solver output

symvars == <<hessian_d, hessian_B0, hessian_B, loop_i, loop_j, loop_pc, visited>>
kernelvars == <<kernel_d, kernel_D, kernel_Q, EVals, EVecs, kernel_pc, symvars>>
inputs == <<num_subintervals, fields, spaceOf, icv, num_timesteps,
            timesteps_per_export, test_checkpoint_qoi, get_adj_values, warn,
            steady, drift, badCall, badKind, qoi_num_args, qoi_type_kwarg, untagged,
            elementOf, odd_block, over_solve, unnamed_seg, clear_tape_flag, optimized,
      num_solve_blocks, ratio_timesteps, ratio_outcome, round, firstOutcome,
            x_source, y_target, projected, source_b, proj_pc, kernelvars>>
projvars == <<x_source, y_target, projected, source_b, proj_pc>>
history == <<calls, qoiEvals, phases, seedRead, seedAssigned>>
vars == <<num_subintervals, fields, spaceOf, icv, num_timesteps,
          timesteps_per_export, test_checkpoint_qoi, get_adj_values, warn,
          steady, drift, badCall, badKind, qoi_num_args, qoi_type_kwarg,
          untagged, elementOf, odd_block, over_solve, unnamed_seg, clear_tape_flag, optimized,
      num_solve_blocks, ratio_timesteps, ratio_outcome, round, firstOutcome,
          x_source, y_target, projected, source_b, proj_pc,
          kernel_d, kernel_D, kernel_Q, EVals, EVecs, kernel_pc,
          hessian_d, hessian_B0, hessian_B, loop_i, loop_j, loop_pc, visited,
          qoi_type, qoi, J, J_chk, checkpoints, checkpoint_adj, sols, sols_is, lagged_dep_idx, tape, controls, seeds,
          solutions, i, fidx, pc, error, warnings,
          calls, qoiEvals, phases, seedRead, seedAssigned>>

ratiovars == <<num_solve_blocks, ratio_timesteps, ratio_outcome>>
mainvars == <<num_subintervals, fields, spaceOf, icv, num_timesteps,
              timesteps_per_export, test_checkpoint_qoi, get_adj_values, warn,
              steady, drift, badCall, badKind, qoi_num_args, qoi_type_kwarg,
              untagged, elementOf, odd_block, over_solve, unnamed_seg,
              clear_tape_flag, optimized, round, firstOutcome,
              qoi_type, qoi, J, J_chk, checkpoints, checkpoint_adj, sols, sols_is,
              lagged_dep_idx, tape, controls, seeds, solutions, i, fidx, pc,
              error, warnings, calls, qoiEvals, phases, seedRead, seedAssigned>>

\* ------------------------------------------------------------- helpers
Range(s) == {s[k] : k \in DOMAIN s}
FieldSet == Range(fields)
FieldIndex(f) == CHOOSE k \in DOMAIN fields : fields[k] = f

Function(fs, v) == [fs |-> fs, val |-> v]

RECURSIVE SumOver(_, _)
SumOver(S, g) ==
    IF S = {} THEN 0
    ELSE LET x == CHOOSE y \in S : TRUE IN g[x] + SumOver(S \ {x}, g)

\* ------------------------------------------- interpolation.py (scalar form)
\* Inverse of the mass matrix of a space and the mixed mass matrix of a pair
\* of spaces; the latter is the same matrix read in either direction.
TargetMassInv(fs) == fs
MixedMass(a, b) == 2

mesh2mesh_project_adjoint(target_b, source_space) ==
    IF source_space = target_b.fs THEN target_b
    ELSE LET residual == (TargetMassInv(target_b.fs) * target_b.val) % Modulus
         IN  Function(source_space,
                      (MixedMass(source_space, target_b.fs) * residual) % Modulus)

\* firedrake's project: solve the target mass system against the mixed mass
\* matrix applied to the source.
mesh2mesh_project_forward(source, target_space) ==
    IF source.fs = target_space THEN source
    ELSE Function(target_space,
                  (TargetMassInv(target_space)
                     * ((MixedMass(source.fs, target_space) * source.val) % Modulus))
                  % Modulus)

project(source, target_space, adjoint) ==
    IF adjoint THEN mesh2mesh_project_adjoint(source, target_space)
    ELSE mesh2mesh_project_forward(source, target_space)

\* ------------------------------------------- interpolation.py (dof vectors)
\* Functions with two degrees of freedom; matrices are sequences of rows.
DofIndex == {1, 2}
Vectors == [DofIndex -> 0 .. Modulus - 1]
Mult(m, v) == [r \in DofIndex |-> (m[r][1] * v[1] + m[r][2] * v[2]) % Modulus]
Transpose(m) == [r \in DofIndex |-> [c \in DofIndex |-> m[c][r]]]
MultUntransposed(m, v) == Mult(m, v)
MultTranspose(m, v) == Mult(Transpose(m), v)
Dot(v, w) == (v[1] * w[1] + v[2] * w[2]) % Modulus

\* Inverse of assemble_mass_matrix(fs): symmetric, as a mass matrix is.
MassInverse(fs) ==
    IF fs = 1 THEN <<<<1, 1>>, <<1, 2>>>> ELSE <<<<2, 1>>, <<1, 3>>>>

\* assemble_mixed_mass_matrix(V_A, V_B): trial functions of V_A, test
\* functions of V_B, so rows are dofs of V_B and columns dofs of V_A.
MixedMassMatrix(V_A, V_B) ==
    IF V_A = V_B THEN <<<<1, 0>>, <<0, 1>>>>
    ELSE IF V_A < V_B THEN <<<<1, 2>>, <<0, 1>>>>
    ELSE Transpose(<<<<1, 2>>, <<0, 1>>>>)

\* ksp.solve and ksp.solveTranspose with the mass matrix of fs as operator.
KspSolve(fs, b) == Mult(MassInverse(fs), b)
KspSolveTranspose(fs, b) == MultTranspose(MassInverse(fs), b)

\* Lines 35-85 on a space that is not mixed.
AdjointProjection(tb, source_space) ==
    IF source_space = tb.fs THEN tb
    ELSE LET residual == KspSolveTranspose(tb.fs, tb.val)
         IN  Function(source_space,
                      MultTranspose(MixedMassMatrix(source_space, tb.fs), residual))

\* Lines 19-32 on a space that is not mixed: firedrake's project solves the
\* target mass system for the mixed mass matrix applied to the source.
ForwardProjection(src, target_space) ==
    IF src.fs = target_space THEN src
    ELSE Function(target_space,
                  KspSolve(target_space,
                           Mult(MixedMassMatrix(src.fs, target_space), src.val)))

\* Lines 8-32: mesh2mesh_project with its `adjoint` switch.
mesh2mesh_project(src, target_space, adjoint) ==
    IF adjoint THEN AdjointProjection(src, target_space)
    ELSE ForwardProjection(src, target_space)

\* ------------------------------------------------ external collaborators
\* One timestep of the solver for the field of index k.
SolverStep(k, u, annotated) ==
    (u * u + k + (IF annotated THEN drift ELSE 0)) % Modulus
SolverStepDerivative(u) == (2 * u) % Modulus

\* Timesteps the solver takes on a segment.
SolverSteps == num_timesteps + (IF over_solve THEN timesteps_per_export ELSE 0)

\* Values of field k after 0..n timesteps from u0.
RECURSIVE Trajectory(_, _, _, _)
Trajectory(k, u0, n, annotated) ==
    IF n = 0 THEN <<u0>>
    ELSE LET t == Trajectory(k, u0, n - 1, annotated)
         IN  Append(t, SolverStep(k, t[n], annotated))

\* The QoI integrand of one field and its derivative.
QoIValue(u) == (u * u) % Modulus
QoIDerivative(u) == (2 * u) % Modulus

\* Keys of the dict a collaborator returns.
ReturnedKeys(call) ==
    IF badCall # call THEN FieldSet
    ELSE IF badKind = "missing" THEN FieldSet \ {fields[Len(fields)]}
    ELSE FieldSet \cup {"extra"}

\* Sum of the time-integrated QoI over one run of the solver on a segment.
SolverJ(ic, annotated) ==
    LET contrib == [f \in FieldSet |->
            LET t == Trajectory(FieldIndex(f), ic[f].val, SolverSteps, annotated)
            IN  SumOver(2 .. SolverSteps + 1, [k \in 2 .. SolverSteps + 1 |-> QoIValue(t[k])])]
    IN  SumOver(FieldSet, contrib) % Modulus

\* Return value of solver(seg, ic).
SolverReturn(seg, ic, annotated) ==
    [seg  |-> seg,
     keys |-> ReturnedKeys(seg),
     adj  |-> [f \in FieldSet |-> None],
     val  |-> [f \in FieldSet |->
                 Function(spaceOf[seg],
                          Trajectory(FieldIndex(f), ic[f].val, SolverSteps,
                                     annotated)[SolverSteps + 1])]]

NoSols == [seg |-> None, keys |-> {}, adj |-> <<>>, val |-> <<>>]

\* qoi(sols) for an end-time QoI.
EndTimeQoI(s) == SumOver(FieldSet, [f \in FieldSet |-> QoIValue(s.val[f].val)]) % Modulus

\* ------------------------------------------------- AdjointMeshSeq.get_qoi
QoIArgCounts == {1, 2, 3}
ArityError == "ValueError: QoI should have 1 or 2 args"
CallError == "TypeError: qoi() missing 1 required positional argument"

\* Lines 52-77: the new self.qoi_type and self.qoi, or the error raised.
\* `annotate` is pyadjoint.tape.annotate_tape().
get_qoi_as_declared(annotate) ==
    IF qoi_num_args \in {1, 2}
    THEN [qoi_type |-> qoi_type,
          qoi |-> IF annotate THEN "wrapper" ELSE "lambda", error |-> ""]
    ELSE [qoi_type |-> qoi_type, qoi |-> qoi, error |-> ArityError]
get_qoi(annotate) ==
    IF qoi_num_args = 1
    THEN [qoi_type |-> "end_time",
          qoi |-> IF annotate THEN "wrapper" ELSE "lambda", error |-> ""]
    ELSE IF qoi_num_args = 2
    THEN [qoi_type |-> "time_integrated",
          qoi |-> IF annotate THEN "wrapper" ELSE "lambda", error |-> ""]
    ELSE [qoi_type |-> qoi_type, qoi |-> qoi, error |-> ArityError]

\* ------------------------------------------------------ the working tape
\* A block of the tape.  Solve blocks carry their field and the tag the solver
\* gave them (the field's name, or "" for ad_block_tag left out), the
\* lagged dependency (name and saved value), the saved output and, once the
\* backward sweep ran, the adjoint solution and the adjoint value accumulated
\* on the lagged dependency.  Assemble blocks are QoI evaluations of a
\* timestep.
OldName(f) == CASE f = "u" -> "u_old" [] f = "v" -> "v_old" [] f = "uv" -> "uv_old"
                [] OTHER -> "_old"

SolveBlock(seg, f, step, dep, out) ==
    [kind |-> "solve", field |-> f, tag |-> IF f = untagged THEN "" ELSE f,
     seg |-> seg, fs |-> spaceOf[seg],
     element |-> IF odd_block # 0 /\ f = fields[Len(fields)] /\ step >= odd_block
                 THEN "P2" ELSE elementOf[seg],
     step |-> step,
     dep_name |-> IF seg = unnamed_seg THEN "" ELSE OldName(f),
     dep |-> dep, out |-> out,
     adj_sol |-> None, dep_adj |-> None]

AssembleBlock(seg, step) ==
    [kind |-> "assemble", field |-> "", tag |-> "", seg |-> seg, fs |-> 0,
     element |-> "", step |-> step,
     dep_name |-> "", dep |-> None, out |-> None, adj_sol |-> None, dep_adj |-> None]

\* A block left on the tape by earlier work of the caller.
StaleBlock ==
    [kind |-> "solve", field |-> "u", tag |-> "u", seg |-> None, fs |-> 1,
     element |-> "P1", step |-> 1,
     dep_name |-> "u_old", dep |-> 0, out |-> 0, adj_sol |-> None, dep_adj |-> None]

\* Blocks the annotated solver writes in timestep `step`: one solve per field,
\* then the evaluation of the time-integrated QoI.  The solver starts with a
\* call of get_qoi and tests self.qoi_type after it.
RECURSIVE StepBlocks(_, _, _, _)
StepBlocks(seg, ic, step, k) ==
    IF k > Len(fields) THEN <<>>
    ELSE LET f == fields[k]
             t == Trajectory(k, ic[f].val, SolverSteps, TRUE)
         IN  <<SolveBlock(seg, f, step, t[step], t[step + 1])>>
                \o StepBlocks(seg, ic, step, k + 1)

RECURSIVE SolverBlocks(_, _, _)
SolverBlocks(seg, ic, step) ==
    IF step > SolverSteps THEN <<>>
    ELSE StepBlocks(seg, ic, step, 1)
           \o (IF get_qoi(TRUE).qoi_type = "time_integrated"
               THEN <<AssembleBlock(seg, step)>> ELSE <<>>)
           \o SolverBlocks(seg, ic, step + 1)

\* ------------------------------------------------ MeshSeq.get_solve_blocks
\* Python's `field in block.tag` on strings: substring containment.
InTag(field, tag) ==
    \/ field = tag
    \/ <<field, tag>> \in {<<"u", "uv">>, <<"v", "uv">>}

\* Indices (into the tape tp) of the solve blocks kept for `field`, in order.
RECURSIVE FieldBlockIndices(_, _, _)
FieldBlockIndices(tp, field, p) ==
    IF p > Len(tp) THEN <<>>
    ELSE (IF tp[p].kind = "solve" /\ tp[p].tag # "" /\ InTag(field, tp[p].tag)
          THEN <<p>> ELSE <<>>) \o FieldBlockIndices(tp, field, p + 1)

\* A message passed to self.warning, with the field and subinterval the
\* emitting code was working on ("" and None outside the loops).
Warning(msg, field, subinterval) == [msg |-> msg, field |-> field, seg |-> subinterval]

ElementError == "ValueError: Solve block list contains mismatching elements"

RatioError == "ValueError: Number of timesteps does not divide number of solve blocks"

\* Lines 281-283: ratio = len(solve_blocks) / num_timesteps and
\* np.isclose(np.round(ratio), ratio), i.e. |round(ratio) - ratio| <=
\* atol + rtol * |ratio| with numpy's defaults atol = 1e-8 and rtol = 1e-5,
\* written over the integers: with r the remainder of n by nts and dist the
\* smaller of r and nts - r, the test is dist / nts <= atol + rtol * n / nts,
\* that is dist <= (nts + (rtol / atol) * n) * atol, rounded down as dist is
\* an integer.
isclose_atol_inverse == 100000000
isclose_rtol_over_atol == 1000
RatioIsClose(n, nts) ==
    LET r    == n % nts
        dist == IF r < nts - r THEN r ELSE nts - r
    IN  dist <= (nts + isclose_rtol_over_atol * n) \div isclose_atol_inverse

\* Lines 280-289 for n blocks on a subinterval of nts timesteps.
RatioCheck(n, nts) ==
    IF nts = 0 THEN "ZeroDivisionError: division by zero"
    ELSE IF ~RatioIsClose(n, nts) THEN RatioError
    ELSE ""

\* Result of get_solve_blocks on tape tp: the blocks (as indices), the tape
\* with adjoint solutions defaulted to zero, warnings and a raised error.
get_solve_blocks(tp, field, has_adj_sol) ==
    LET solve == {p \in DOMAIN tp : tp[p].kind = "solve"}
        sb    == FieldBlockIndices(tp, field, 1)
        empty == [blocks |-> <<>>, tape |-> tp, warns |-> <<>>, error |-> ""]
    IN  IF Len(tp) = 0 THEN [empty EXCEPT !.warns = <<Warning("Tape has no blocks!", field, i)>>]
        ELSE IF solve = {} THEN [empty EXCEPT !.warns = <<Warning("Tape has no solve blocks!", field, i)>>]
        ELSE IF Len(sb) = 0
        THEN [empty EXCEPT !.warns =
                 <<Warning("No solve blocks associated with field", field, i)>>]
        ELSE LET allNone == \A k \in DOMAIN sb : tp[sb[k]].adj_sol = None
                 tp2 == IF has_adj_sol
                        THEN [p \in DOMAIN tp |->
                                IF p \in Range(sb) /\ tp[p].adj_sol = None
                                THEN [tp[p] EXCEPT !.adj_sol = 0] ELSE tp[p]]
                        ELSE tp
             IN  [blocks |-> sb,
                  tape   |-> tp2,
                  warns  |-> IF has_adj_sol /\ allNone
                             THEN <<Warning("No block has an adjoint solution", field, i)>>
                             ELSE <<>>,
                  error  |-> IF \E k \in DOMAIN sb : tp[sb[k]].element # tp[sb[1]].element
                             THEN ElementError
                             ELSE RatioCheck(Len(sb), num_timesteps)]

\* -------------------------------------- MeshSeq.get_lagged_dependency_index
\* Index found by matching the first block's dependency (None when no match).
LaggedDependencyMatch(tp, field, subinterval, sb) ==
    LET b == tp[sb[1]]
    IN  IF b.fs = spaceOf[subinterval] /\ b.dep_name = OldName(field) THEN 0 ELSE None

\* Lines 302-303: a field already in self._lagged_dep_idx is answered from it.
get_lagged_dependency_index_uncached(tp, field, subinterval, sb) ==
    LaggedDependencyMatch(tp, field, subinterval, sb)
get_lagged_dependency_index(tp, field, subinterval, sb) ==
    IF lagged_dep_idx[field] # Unset THEN lagged_dep_idx[field]
    ELSE LaggedDependencyMatch(tp, field, subinterval, sb)

\* --------------------------------------------------- tape.evaluate_adj
AddAdj(a, b) == IF a = None THEN b ELSE IF b = None THEN a ELSE (a + b) % Modulus

\* The solve block of field f and timestep k recorded for segment seg.
BlockOf(tp, seg, f, k) ==
    tp[CHOOSE p \in DOMAIN tp :
          tp[p].kind = "solve" /\ tp[p].field = f /\ tp[p].seg = seg /\ tp[p].step = k]

\* Adjoint value accumulated on the output of solve k of field f: the QoI
\* evaluated on it plus what flows back from the next solve, or from the
\* adj_value set on the solver's return at the end of the segment.
RECURSIVE OutputAdjoint(_, _, _, _, _)
OutputAdjoint(tp, seg, f, k, endAdj) ==
    LET b   == BlockOf(tp, seg, f, k)
        q   == IF \E p \in DOMAIN tp : tp[p].kind = "assemble" /\ tp[p].seg = seg
                                         /\ tp[p].step = k
               THEN QoIDerivative(b.out) ELSE None
        nxt == IF k = SolverSteps THEN endAdj[f]
               ELSE LET a == OutputAdjoint(tp, seg, f, k + 1, endAdj)
                        d == BlockOf(tp, seg, f, k + 1).dep
                    IN  IF a = None THEN None
                        ELSE (SolverStepDerivative(d) * a) % Modulus
    IN  AddAdj(q, nxt)

DependencyAdjoint(tp, seg, f, k, endAdj) ==
    LET a == OutputAdjoint(tp, seg, f, k, endAdj)
    IN  IF a = None THEN None
        ELSE (SolverStepDerivative(BlockOf(tp, seg, f, k).dep) * a) % Modulus

\* Adjoint value accumulated on the control of field f, whose copy the solver
\* starts from; `out` is the solver's return.  A solver that takes no step
\* returns the control's value itself.
ControlAdjoint(tp, seg, f, out, endAdj) ==
    IF SolverSteps = 0
    THEN AddAdj(IF \E p \in DOMAIN tp : tp[p].kind = "assemble" /\ tp[p].seg = seg
                THEN QoIDerivative(out[f].val) ELSE None,
                endAdj[f])
    ELSE DependencyAdjoint(tp, seg, f, 1, endAdj)

evaluate_adj(tp, seg, endAdj) ==
    [p \in DOMAIN tp |->
       IF tp[p].kind = "solve" /\ tp[p].seg = seg
       THEN LET a == OutputAdjoint(tp, seg, tp[p].field, tp[p].step, endAdj)
            IN  [tp[p] EXCEPT !.adj_sol = IF a = None THEN @ ELSE a,
                              !.dep_adj = DependencyAdjoint(tp, seg, tp[p].field,
                                                            tp[p].step, endAdj)]
       ELSE tp[p]]

\* ---------------------------------------------------- mesh_seq.py helpers
\* MeshSeq.initial_condition: the dict of get_initial_condition.
InitialConditionKeys == ReturnedKeys(-1)
InitialCondition ==
    [f \in FieldSet |-> Function(spaceOf[0], (icv + FieldIndex(f) - 1) % Modulus)]

\* ------------------------------------------------------------------ Init
TimePartitions ==
    {tp \in [nts : 0 .. MaxTimesteps, tpe : 1 .. MaxTimesteps] :
        tp.nts % tp.tpe = 0 /\ (tp.nts = 0 => tp.tpe = 1)}

\* The type get_qoi assigns for a QoI of num_args positional arguments.
QoITypeOfCount(num_args) ==
    CASE num_args = 1 -> "end_time" [] num_args = 2 -> "time_integrated" [] OTHER -> ""

\* Runs that depart from the reference set-up (a wrong field set, a QoI whose
\* arity contradicts the declared type, a field whose solves carry no tag,
\* function spaces or solves of another element, a solver that takes too many
\* timesteps, a segment without timesteps) are explored one departure at a
\* time, from one initial value, with a solver that steps alike in both modes
\* and from an empty tape.  In the reference set-up the caller that starts
\* from the second initial value has left a block on the tape.
\* One mesh per segment: all segments on one space, the spaces alternating, or
\* the first segment alone on its space.
SpaceLayouts(n) ==
    {layout \in [0 .. n - 1 -> Spaces] :
        /\ layout[0] = 1
        /\ \/ \A seg \in 0 .. n - 1 : layout[seg] = 1
           \/ \A seg \in 1 .. n - 1 : layout[seg] # layout[seg - 1]
           \/ \A seg \in 1 .. n - 1 : layout[seg] = 2}

DepartureKinds ==
    {"none", "field_set", "arity", "untagged", "element", "over_solve", "steady",
     "lagged_name"}
DeclaredElementsDiffer == \E seg \in DOMAIN elementOf : elementOf[seg] # elementOf[0]

ProjectionIdle ==
    /\ x_source = None
    /\ y_target = None
    /\ projected = None
    /\ source_b = None
    /\ proj_pc = "idle"

SymmetriseIdle ==
    /\ hessian_d = None
    /\ hessian_B0 = None
    /\ hessian_B = None
    /\ loop_i = None
    /\ loop_j = None
    /\ loop_pc = "idle"
    /\ visited = <<>>

KernelIdle ==
    /\ SymmetriseIdle
    /\ kernel_d = None
    /\ kernel_D = None
    /\ kernel_Q = None
    /\ EVals = None
    /\ EVecs = None
    /\ kernel_pc = "idle"

InitRun ==
    /\ num_subintervals \in 1 .. MaxN
    /\ fields \in FieldChoices
    /\ spaceOf \in SpaceLayouts(num_subintervals)
    /\ \E tp \in TimePartitions :
         /\ num_timesteps = tp.nts
         /\ timesteps_per_export = tp.tpe
    /\ test_checkpoint_qoi \in BOOLEAN
    /\ get_adj_values \in BOOLEAN
    /\ warn \in BOOLEAN
    /\ qoi_type_kwarg \in {"end_time", "time_integrated"}
    /\ \E dep \in DepartureKinds :
         LET base == dep # "none" \/ num_timesteps = 0 IN
         /\ badCall \in IF dep = "field_set" THEN -1 .. num_subintervals - 1 ELSE {-2}
         /\ badKind \in IF dep = "field_set" THEN {"missing", "extra"} ELSE {"missing"}
         /\ qoi_num_args \in
              IF dep = "arity"
              THEN {n \in QoIArgCounts : QoITypeOfCount(n) # qoi_type_kwarg}
              ELSE {n \in QoIArgCounts : QoITypeOfCount(n) = qoi_type_kwarg}
         /\ untagged \in IF dep = "untagged" THEN Range(fields) ELSE {""}
         /\ elementOf \in IF dep = "element"
                          THEN [0 .. num_subintervals - 1 -> Elements]
                          ELSE {[seg \in 0 .. num_subintervals - 1 |-> "P1"]}
         /\ elementOf[0] = "P1"
         /\ odd_block \in IF dep = "element" /\ ~DeclaredElementsDiffer
                          THEN 1 .. num_timesteps ELSE {0}
         /\ over_solve = (dep = "over_solve")
         /\ unnamed_seg \in IF dep = "lagged_name"
                            THEN 0 .. num_subintervals - 1 ELSE {-2}
         /\ steady = (dep = "steady")
         /\ icv \in IF base THEN {1} ELSE ICValues
         /\ drift \in IF base THEN {0} ELSE {0, 1}
         /\ tape = IF icv = 1 THEN <<>> ELSE <<StaleBlock>>
    /\ round = 1
    /\ firstOutcome = None
    /\ qoi_type = qoi_type_kwarg
    /\ qoi = "unset"
    /\ J = 0
    /\ J_chk = None
    /\ checkpoints = <<>>
    /\ checkpoint_adj = [seg \in 0 .. num_subintervals - 1 |->
                           [f \in Range(fields) |-> None]]
    /\ sols = NoSols
    /\ sols_is = ""
    /\ lagged_dep_idx = [f \in Range(fields) |-> Unset]
    /\ controls = None
    /\ seeds = None
    /\ solutions = None
    /\ i = 0
    /\ fidx = 0
    /\ pc = "start"
    /\ error = ""
    /\ warnings = <<>>
    /\ calls = <<>>
    /\ qoiEvals = <<>>
    /\ phases = <<>>
    /\ seedRead = <<>>
    /\ seedAssigned = <<>>

\* solve_forward is not running: its keyword has the default.
RatioIdle ==
    num_solve_blocks = None /\ ratio_timesteps = None /\ ratio_outcome = "idle"
ForwardIdle == clear_tape_flag = TRUE /\ optimized = FALSE /\ RatioIdle

\* The solver names the lagged Function of every field '<field>_old'.
LaggedNamed == unnamed_seg = -2

Init == ProjectionIdle /\ KernelIdle /\ ForwardIdle /\ InitRun /\ LaggedNamed

\* The inputs of a specification in which solve_adjoint does not run.
NoRun ==
    /\ InitRun
    /\ ForwardIdle
    /\ num_subintervals = 1 /\ fields = <<"u">> /\ num_timesteps = 1
    /\ ~test_checkpoint_qoi /\ ~get_adj_values /\ ~warn
    /\ qoi_type_kwarg = "end_time" /\ qoi_num_args = 1
    /\ badCall = -2 /\ untagged = "" /\ odd_block = 0
    /\ ~over_solve /\ unnamed_seg = -2 /\ ~steady /\ icv = 1 /\ drift = 0

Fail(msg) ==
    /\ pc' = "failed"
    /\ error' = msg

\* ---------------------------------------- AdjointMeshSeq.get_checkpoints
\* Entry of solve_adjoint (line 159: self.function_spaces) up to the first
\* iteration of get_checkpoints' loop.
\* MeshSeq._function_spaces_consistent: the element of every segment equals
\* that of segment 0.
function_spaces_consistent ==
    \A seg \in DOMAIN elementOf : elementOf[0] = elementOf[seg]

\* Line 96: self.J at the start of the checkpoint pass.
CheckpointPassStartKept == J
CheckpointPassStart == 0

GetCheckpointsBegin ==
    /\ pc = "start"
    /\ phases' = Append(phases, <<"checkpoint", -1>>)
    /\ J' = IF function_spaces_consistent THEN CheckpointPassStart ELSE J
    /\ IF ~function_spaces_consistent
       THEN Fail("Meshes and function spaces are inconsistent")
              /\ UNCHANGED <<checkpoints, i>>
       ELSE IF ~(FieldSet \subseteq InitialConditionKeys)
       THEN Fail("missing fields in initial condition") /\ UNCHANGED <<checkpoints, i>>
       ELSE IF ~(InitialConditionKeys \subseteq FieldSet)
       THEN Fail("more initial conditions than fields") /\ UNCHANGED <<checkpoints, i>>
       ELSE /\ checkpoints' = <<InitialCondition>>
            /\ i' = 0
            /\ pc' = IF num_subintervals = 1 /\ ~test_checkpoint_qoi
                     THEN "capture" ELSE "chk_solve"
            /\ UNCHANGED error
    /\ UNCHANGED <<inputs, checkpoint_adj, qoi_type, qoi, J_chk, sols, sols_is, lagged_dep_idx, tape,
                   controls, seeds, solutions, fidx, warnings, calls, qoiEvals,
                   seedRead, seedAssigned>>

\* Lines 109-112: the checkpoint that starts subinterval seg + 1.
NextCheckpointUnprojected(val, seg) == [f \in FieldSet |-> val[f]]
NextCheckpoint(val, seg) ==
    [f \in FieldSet |-> project(val[f], spaceOf[seg + 1], FALSE)]

\* One iteration of the forward loop (lines 103-112).
CheckpointLimitAlwaysFinal == num_subintervals
CheckpointLimit ==
    IF test_checkpoint_qoi THEN num_subintervals ELSE num_subintervals - 1

CheckpointSolve ==
    /\ pc = "chk_solve"
    /\ i < CheckpointLimit
    /\ LET ret == SolverReturn(i, checkpoints[i + 1], FALSE)
           g   == get_qoi(FALSE)
       IN
       /\ qoi_type' = g.qoi_type
       /\ qoi' = g.qoi
       /\ IF g.error # ""
          THEN /\ Fail(g.error)
               /\ calls' = Append(calls, [mode |-> "forward", seg |-> i,
                                          ic |-> checkpoints[i + 1],
                                          keys |-> {}, ret |-> <<>>])
               /\ UNCHANGED <<sols, J, checkpoints, i>>
          ELSE /\ sols' = ret
               /\ calls' = Append(calls, [mode |-> "forward", seg |-> i,
                                          ic |-> checkpoints[i + 1],
                                          keys |-> ret.keys, ret |-> ret.val])
               /\ J' = IF g.qoi_type = "time_integrated"
                       THEN (J + SolverJ(checkpoints[i + 1], FALSE)) % Modulus ELSE J
               /\ IF ~(FieldSet \subseteq ret.keys)
                  THEN Fail("missing fields from solver") /\ UNCHANGED <<checkpoints, i>>
                  ELSE IF ~(ret.keys \subseteq FieldSet)
                  THEN Fail("more solver outputs than fields")
                         /\ UNCHANGED <<checkpoints, i>>
                  ELSE /\ checkpoints' =
                            IF i < num_subintervals - 1
                            THEN Append(checkpoints, NextCheckpoint(ret.val, i))
                            ELSE checkpoints
                       /\ i' = i + 1
                       /\ UNCHANGED <<pc, error>>
    /\ UNCHANGED <<inputs, checkpoint_adj, J_chk, sols_is, lagged_dep_idx, tape,
                   controls, seeds, solutions, fidx, warnings, qoiEvals, phases,
                   seedRead, seedAssigned>>

\* After the loop: the end-time QoI (lines 114-118).
CheckpointQoI ==
    /\ pc = "chk_solve"
    /\ i = CheckpointLimit
    /\ IF qoi_type = "end_time"
       THEN LET g == get_qoi(FALSE) IN
            /\ qoi_type' = g.qoi_type
            /\ qoi' = g.qoi
            /\ IF g.error # ""
               THEN Fail(g.error) /\ UNCHANGED <<J, qoiEvals>>
               ELSE IF g.qoi_type # "end_time"
               THEN Fail(CallError) /\ UNCHANGED <<J, qoiEvals>>
               ELSE /\ J' = EndTimeQoI(sols)
                    /\ qoiEvals' = Append(qoiEvals, [seg |-> sols.seg])
                    /\ pc' = "capture"
                    /\ UNCHANGED error
       ELSE /\ pc' = "capture"
            /\ UNCHANGED <<J, qoiEvals, qoi_type, qoi, error>>
    /\ UNCHANGED <<inputs, checkpoint_adj, J_chk, checkpoints, sols, sols_is,
                   lagged_dep_idx, tape, controls, seeds, solutions, i, fidx,
                   warnings, calls, phases, seedRead, seedAssigned>>

\* ------------------------------------------- AdjointMeshSeq.solve_adjoint
ExportsPerSubinterval == (num_timesteps \div timesteps_per_export) + 1
solves_per_timestep == 1

Labels ==
    {"forward", "forward_old", "adjoint"}
      \cup (IF ~steady THEN {"adjoint_next"} ELSE {})
      \cup (IF get_adj_values THEN {"adj_value"} ELSE {})

\* The archive as allocated: zero Functions, indexed [field][label][i][j]
\* with i and j counted from 1.
AllocatedOnePerExport ==
    [f \in FieldSet |->
       [label \in Labels |->
          [seg \in 1 .. num_subintervals |->
             [j \in 1 .. ExportsPerSubinterval |-> Function(spaceOf[seg - 1], 0)]]]]
AllocatedSolutions ==
    [f \in FieldSet |->
       [label \in Labels |->
          [seg \in 1 .. num_subintervals |->
             [j \in 1 .. ExportsPerSubinterval - 1 |-> Function(spaceOf[seg - 1], 0)]]]]

\* tape.clear_tape()
clear_tape_noop(tp) == tp
clear_tape(tp) == <<>>

\* The order of the reverse sweep: reversed(range(num_subintervals)).
SweepFirst == num_subintervals - 1
SweepNextSkipping(seg) == seg - 2
SweepNext(seg) == seg - 1

\* Line 193: the state the replay of subinterval seg starts from.
ReplayFromInitialCondition(seg) == [f \in FieldSet |-> checkpoints[1][f]]
ReplayInitialState(seg) == [f \in FieldSet |-> checkpoints[seg + 1][f]]

\* Lines 193-194: is the Function the controls wrap (and the solver starts
\* from) the checkpoint's own Function?  It is a deep copy of it.
InitIsCheckpointItself == TRUE
InitAliasesCheckpoint == FALSE

\* Line 218: the adj_value set on the solver's output of field f.
SeedAdjValueForward(f) == project(seeds[f], spaceOf[i], FALSE)
SeedAdjValue(f) == project(seeds[f], spaceOf[i], TRUE)

\* Line 169: the running accumulator after J_chk was captured.
AccumulatorKept == J
AccumulatorReset == 0

\* Line 324: is J compared with J_chk?
ConsistencyNeverChecked == FALSE
ConsistencyChecked == qoi_type = "time_integrated" /\ test_checkpoint_qoi

\* Lines 166-202: capture J_chk, allocate the archive, clear the tape.
CaptureAndAllocate ==
    /\ pc = "capture"
    /\ warnings' = IF warn /\ test_checkpoint_qoi /\ J = 0
                   THEN Append(warnings, Warning("Zero QoI", "", None)) ELSE warnings
    /\ J_chk' = J
    /\ J' = AccumulatorReset
    /\ solutions' = AllocatedSolutions
    /\ tape' = clear_tape(tape)
    /\ seeds' = None
    /\ i' = SweepFirst
    /\ pc' = "replay"
    /\ UNCHANGED <<inputs, checkpoint_adj, qoi_type, qoi, checkpoints, sols, sols_is, lagged_dep_idx,
                   controls, fidx, error, calls, qoiEvals, phases, seedRead,
                   seedAssigned>>

\* Line 206: wrapped_solver(i, checkpoints[i]).
Replay ==
    /\ pc = "replay"
    /\ LET init == ReplayInitialState(i)
           g    == get_qoi(TRUE)
       IN
       /\ controls' = [k \in DOMAIN fields |-> [field |-> fields[k], adj_value |-> None]]
       /\ qoi_type' = g.qoi_type
       /\ qoi' = g.qoi
       /\ IF g.error # ""
          THEN /\ Fail(g.error)
               /\ calls' = Append(calls, [mode |-> "record", seg |-> i, ic |-> init,
                                          keys |-> {}, ret |-> <<>>])
               /\ UNCHANGED <<sols, sols_is, tape, J>>
          ELSE /\ sols' = SolverReturn(i, init, TRUE)
               /\ sols_is' = ""
               /\ tape' = tape \o SolverBlocks(i, init, 1)
               /\ J' = IF g.qoi_type = "time_integrated"
                       THEN (J + SolverJ(init, TRUE)) % Modulus ELSE J
               /\ calls' = Append(calls, [mode |-> "record", seg |-> i, ic |-> init,
                                          keys |-> ReturnedKeys(i),
                                          ret |-> SolverReturn(i, init, TRUE).val])
               /\ pc' = "seed"
               /\ UNCHANGED error
    /\ phases' = Append(phases, <<"replay", i>>)
    /\ UNCHANGED <<inputs, checkpoint_adj, J_chk, checkpoints, lagged_dep_idx, seeds,
                   solutions, i, fidx, warnings, qoiEvals, seedRead,
                   seedAssigned>>

\* Lines 208-218: the seed of the backward sweep.
Seed ==
    /\ pc = "seed"
    /\ phases' = Append(phases, <<"seed", i>>)
    /\ IF i = num_subintervals - 1
       THEN IF qoi_type = "end_time"
            THEN LET g == get_qoi(TRUE) IN
                 /\ qoi_type' = g.qoi_type
                 /\ qoi' = g.qoi
                 /\ IF g.error # ""
                    THEN /\ Fail(g.error)
                         /\ UNCHANGED <<J, tape, warnings, sols, seedAssigned>>
                    ELSE IF g.qoi_type # "end_time"
                    THEN /\ Fail(CallError)
                         /\ UNCHANGED <<J, tape, warnings, sols, seedAssigned>>
                    ELSE IF ~(FieldSet \subseteq sols.keys)
                    THEN /\ Fail("KeyError in qoi")
                         /\ UNCHANGED <<J, tape, warnings, sols, seedAssigned>>
                    ELSE /\ J' = EndTimeQoI(sols)
                         /\ tape' = Append(tape, AssembleBlock(i, SolverSteps))
                         /\ warnings' = IF warn /\ EndTimeQoI(sols) = 0
                                        THEN Append(warnings, Warning("Zero QoI", "", None)) ELSE warnings
                         /\ pc' = "backward"
                         /\ UNCHANGED <<error, sols, seedAssigned>>
            ELSE /\ pc' = "backward"
                 /\ UNCHANGED <<J, tape, warnings, error, sols, seedAssigned,
                                qoi_type, qoi>>
       ELSE IF ~(FieldSet \subseteq sols.keys)
            THEN /\ Fail("KeyError in sols")
                 /\ UNCHANGED <<J, tape, warnings, sols, seedAssigned, qoi_type, qoi>>
            ELSE LET adj == [f \in FieldSet |-> SeedAdjValue(f)] IN
                 /\ sols' = [sols EXCEPT !.adj = [f \in FieldSet |-> adj[f].val]]
                 /\ seedAssigned' = Append(seedAssigned, [seg |-> i, adj |-> adj])
                 /\ pc' = "backward"
                 /\ UNCHANGED <<J, tape, warnings, error, qoi_type, qoi>>
    /\ UNCHANGED <<inputs, checkpoint_adj, J_chk, checkpoints, sols_is, lagged_dep_idx,
                   controls, seeds, solutions, i, fidx, calls, qoiEvals, seedRead>>

\* Lines 220-223: get_solve_blocks of every field in turn, each call working
\* on the tape the previous one left.
RECURSIVE UpdateAdjKwargs(_, _)
UpdateAdjKwargs(tp, k) ==
    IF k > Len(fields) THEN [tape |-> tp, warns |-> <<>>, error |-> ""]
    ELSE LET r == get_solve_blocks(tp, fields[k], TRUE)
         IN  IF r.error # "" THEN [tape |-> r.tape, warns |-> r.warns, error |-> r.error]
             ELSE LET rest == UpdateAdjKwargs(r.tape, k + 1)
                  IN  [rest EXCEPT !.warns = r.warns \o @]

\* Lines 220-229: update the adjoint solver kwargs, then the backward sweep
\* restricted to the controls.
Backward ==
    /\ pc = "backward"
    /\ phases' = Append(phases, <<"backward", i>>)
    /\ LET r == UpdateAdjKwargs(tape, 1) IN
       /\ warnings' = warnings \o r.warns
       /\ IF r.error # ""
          THEN /\ Fail(r.error)
               /\ tape' = r.tape
               /\ UNCHANGED <<controls, fidx, checkpoint_adj>>
          ELSE LET tp == evaluate_adj(r.tape, i, sols.adj) IN
               /\ tape' = tp
               /\ controls' = [k \in DOMAIN fields |->
                                 [field |-> fields[k],
                                  adj_value |-> ControlAdjoint(r.tape, i, fields[k],
                                                              sols.val, sols.adj)]]
               /\ checkpoint_adj' =
                    IF InitAliasesCheckpoint
                    THEN [checkpoint_adj EXCEPT ![i] =
                            [f \in FieldSet |->
                               ControlAdjoint(r.tape, i, f, sols.val, sols.adj)]]
                    ELSE checkpoint_adj
               /\ fidx' = 1
               /\ pc' = "extract"
               /\ UNCHANGED error
    /\ UNCHANGED <<inputs, qoi_type, qoi, J, J_chk, checkpoints, sols, sols_is,
                   lagged_dep_idx, seeds, solutions, i, calls, qoiEvals,
                   seedRead, seedAssigned>>

Min(a, b) == IF a < b THEN a ELSE b

Pop(d, key) == [k \in DOMAIN d \ {key} |-> d[k]]

\* Lines 251-252 for a field with n solve blocks.
DetectSteady(n) == steady \/ (num_subintervals = 1 /\ n = 1)

\* An archive entry that an iteration leaves as it was.
NoAssign == [fs |-> 0, val |-> None]

\* Lines 273-288: the position, in the field's list of solve blocks, of the
\* block whose adjoint solution is the lagged adjoint solution of export j.
NextIndexGoverning(j, stride) == j * stride
NextIndex(j, stride) == j * stride + 1

\* Line 281: elif j*stride+1 == num_solve_blocks.
StitchCaseNever(next, n) == FALSE
StitchCase(next, n) == next = n

\* Lines 262-302 for export j (counted from 0) of field f: the new values of
\* the labels of entry [i][j], or an error.
ExportEntry(sol, f, sb, j, stride, fwd_old_idx, steady_loc) ==
    LET n     == Len(sb)
        block == tape[sb[j * stride + 1]]
        next  == NextIndex(j, stride)
        adjNextErr ==
            IF steady_loc THEN ""
            ELSE IF next < n \/ (StitchCase(next, n) /\ i + 1 < num_subintervals)
            THEN IF "adjoint_next" \notin DOMAIN sol[f] THEN "AttributeError: adjoint_next"
                 ELSE IF ~(next < n) /\ Len(sol[f]["adjoint_next"][i + 2]) = 0
                 THEN "IndexError: list index out of range"
                 ELSE ""
            ELSE IF StitchCase(next, n) THEN ""
            ELSE "IndexError: Cannot extract solve block"
    IN  [error |->
            IF fwd_old_idx # None /\ get_adj_values /\ block.dep_adj = None
            THEN "AttributeError: adj_value is None"
            ELSE adjNextErr,
         forward_old |->
            IF fwd_old_idx # None THEN Function(spaceOf[i], block.dep) ELSE NoAssign,
         adj_value |->
            IF fwd_old_idx # None /\ get_adj_values
            THEN Function(spaceOf[i], block.dep_adj) ELSE NoAssign,
         adjoint_next |->
            IF steady_loc \/ adjNextErr # "" THEN NoAssign
            ELSE IF next < n
            THEN IF tape[sb[next + 1]].adj_sol # None
                 THEN Function(spaceOf[i], tape[sb[next + 1]].adj_sol) ELSE NoAssign
            ELSE IF i + 1 < num_subintervals
            THEN project(sol[f]["adjoint_next"][i + 2][1], spaceOf[i], TRUE)
            ELSE NoAssign,
         forward |-> Function(spaceOf[i], block.out),
         adjoint |->
            IF block.adj_sol # None THEN Function(spaceOf[i], block.adj_sol) ELSE NoAssign]

\* Line 240: the declared element against that of the first solve block.
ElementsUnchecked(declared, recorded) == TRUE
ElementsMatch(declared, recorded) == declared = recorded

\* Lines 305-308: with self.warn the entry [i][0] is read, which does not
\* exist when the segment has no export entry.
ZeroCheckSecondEntry == warn /\ ExportsPerSubinterval - 1 <= 1
ZeroCheckOutOfRange == warn /\ ExportsPerSubinterval - 1 = 0

\* Lines 233-308 for the field of index fidx.
ExtractField ==
    /\ pc = "extract"
    /\ fidx <= Len(fields)
    /\ LET f  == fields[fidx]
           r  == get_solve_blocks(tape, f, TRUE)
           sb == r.blocks
           n  == Len(sb)
       IN
       IF r.error # ""
       THEN /\ Fail(r.error)
            /\ warnings' = warnings \o r.warns
            /\ UNCHANGED <<solutions, lagged_dep_idx, sols_is, fidx, phases>>
       ELSE IF n = 0
       THEN /\ Fail("Looks like no solves were written to tape!")
            /\ warnings' = warnings \o r.warns
            /\ UNCHANGED <<solutions, lagged_dep_idx, sols_is, fidx, phases>>
       ELSE IF ~ElementsMatch(elementOf[0], tape[sb[1]].element)
       THEN /\ Fail(ElementError)
            /\ warnings' = warnings \o r.warns
            /\ UNCHANGED <<solutions, lagged_dep_idx, sols_is, fidx, phases>>
       ELSE
       LET has_old     == "forward_old" \in DOMAIN solutions[f]
           fwd_old_idx == IF has_old THEN get_lagged_dependency_index(tape, f, i, sb)
                          ELSE None
           lagWarn     == IF has_old /\ lagged_dep_idx[f] = Unset /\ fwd_old_idx = None
                          THEN <<Warning("Solve block has no dependencies", f, i)>> ELSE <<>>
           sol1        == IF fwd_old_idx = None /\ has_old
                          THEN [solutions EXCEPT ![f] = Pop(@, "forward_old")]
                          ELSE solutions
           steady_loc  == DetectSteady(n)
           sol2        == IF steady_loc /\ sols_is # ""
                             /\ "adjoint_next" \in DOMAIN sol1[sols_is]
                          THEN [sol1 EXCEPT ![sols_is] = Pop(@, "adjoint_next")]
                          ELSE sol1
           stride      == timesteps_per_export * solves_per_timestep
           strided     == (n + stride - 1) \div stride
           overWarn    == IF strided >= ExportsPerSubinterval
                          THEN <<Warning("More solve blocks than expected", f, i)>> ELSE <<>>
           count       == Min(ExportsPerSubinterval - 1, strided)
           entry       == [j \in 0 .. count - 1 |->
                             ExportEntry(sol2, f, sb, j, stride, fwd_old_idx, steady_loc)]
           failing     == {j \in 0 .. count - 1 : entry[j].error # ""}
           sol3        == [sol2 EXCEPT ![f] =
                             [label \in DOMAIN sol2[f] |->
                                [sol2[f][label] EXCEPT ![i + 1] =
                                   [j \in DOMAIN sol2[f][label][i + 1] |->
                                      IF j - 1 < count /\ entry[j - 1][label] # NoAssign
                                      THEN entry[j - 1][label]
                                      ELSE sol2[f][label][i + 1][j]]]]]
           zeroAdj     == IF warn /\ sol3[f]["adjoint"][i + 1][1].val = 0
                          THEN <<Warning("Adjoint solution is zero", f, i)>> ELSE <<>>
           zeroVal     == IF warn /\ get_adj_values /\ sol3[f]["adj_value"][i + 1][1].val = 0
                          THEN <<Warning("Adjoint action is zero", f, i)>> ELSE <<>>
       IN
       IF failing # {}
       THEN /\ Fail(entry[CHOOSE j \in failing : \A k \in failing : j <= k].error)
            /\ warnings' = warnings \o r.warns \o lagWarn \o overWarn
            /\ lagged_dep_idx' = IF has_old
                                 THEN [lagged_dep_idx EXCEPT ![f] = fwd_old_idx]
                                 ELSE lagged_dep_idx
            /\ UNCHANGED <<solutions, sols_is, fidx, phases>>
       ELSE IF ZeroCheckOutOfRange
       THEN /\ Fail("IndexError: list index out of range")
            /\ warnings' = warnings \o r.warns \o lagWarn \o overWarn
            /\ lagged_dep_idx' = IF has_old
                                 THEN [lagged_dep_idx EXCEPT ![f] = fwd_old_idx]
                                 ELSE lagged_dep_idx
            /\ UNCHANGED <<solutions, sols_is, fidx, phases>>
       ELSE /\ solutions' = sol3
            /\ lagged_dep_idx' = IF has_old
                                 THEN [lagged_dep_idx EXCEPT ![f] = fwd_old_idx]
                                 ELSE lagged_dep_idx
            /\ sols_is' = f
            /\ warnings' = warnings \o r.warns \o lagWarn \o overWarn \o zeroAdj \o zeroVal
            /\ fidx' = fidx + 1
            /\ phases' = IF fidx = 1 THEN Append(phases, <<"extract", i>>) ELSE phases
            /\ pc' = IF fidx = Len(fields) THEN "propagate" ELSE "extract"
            /\ UNCHANGED error
    /\ tape' = get_solve_blocks(tape, fields[fidx], TRUE).tape
    /\ UNCHANGED <<inputs, checkpoint_adj, qoi_type, qoi, J, J_chk, checkpoints, sols, controls, seeds,
                   i, calls, qoiEvals, seedRead, seedAssigned>>

\* Lines 310-321: read the seeds off the controls and clear the tape.
Propagate ==
    /\ pc = "propagate"
    /\ phases' = Append(phases, <<"propagate", i>>)
    /\ LET new == [f \in FieldSet |->
                     LET a == controls[FieldIndex(f)].adj_value
                     IN  Function(spaceOf[i], IF a = None THEN 0 ELSE a)]
           steady_loc == DetectSteady(Len(FieldBlockIndices(tape, fields[Len(fields)], 1)))
           SeedWarns[k \in 0 .. Len(fields)] ==
               IF k = 0 THEN <<>>
               ELSE SeedWarns[k - 1]
                      \o (IF warn /\ new[fields[k]].val = 0
                          THEN <<Warning("Adjoint action is zero", fields[k], i)>>
                                 \o (IF steady_loc
                                     THEN <<Warning("steady-state problem", fields[k], i)>>
                                     ELSE <<>>)
                          ELSE <<>>)
       IN
       /\ seeds' = new
       /\ seedRead' = Append(seedRead, [seg |-> i, seeds |-> new])
       /\ warnings' = warnings \o SeedWarns[Len(fields)]
    /\ tape' = clear_tape(tape)
    /\ IF SweepNext(i) < 0 THEN pc' = "check" /\ i' = i
       ELSE pc' = "replay" /\ i' = SweepNext(i)
    /\ UNCHANGED <<inputs, checkpoint_adj, qoi_type, qoi, J, J_chk, checkpoints, sols, sols_is,
                   lagged_dep_idx, controls, solutions, fidx, error, calls,
                   qoiEvals, seedAssigned>>

\* Lines 323-327: the consistency check and the return.
FinalCheck ==
    /\ pc = "check"
    /\ IF ConsistencyChecked /\ J_chk # J
       THEN Fail("QoI values computed during checkpointing and annotated run do not match")
       ELSE pc' = "done" /\ UNCHANGED error
    /\ UNCHANGED <<inputs, checkpoint_adj, qoi_type, qoi, J, J_chk, checkpoints, sols, sols_is,
                   lagged_dep_idx, tape, controls, seeds, solutions, i, fidx,
                   warnings, history>>

Next ==
    \/ GetCheckpointsBegin
    \/ CheckpointSolve
    \/ CheckpointQoI
    \/ CaptureAndAllocate
    \/ Replay
    \/ Seed
    \/ Backward
    \/ ExtractField
    \/ Propagate
    \/ FinalCheck

Spec == Init /\ [][Next]_vars

\* ------------------------------------------- two objects, one set of inputs
\* The run of an AdjointMeshSeq built with warnings=True followed by the run
\* of one built with warnings=False on the same inputs (mesh_seq.py:90).
Outcome ==
    [pc |-> pc, error |-> error, calls |-> calls, solutions |-> solutions,
     J |-> J, J_chk |-> J_chk, warnings |-> warnings]

Rerun ==
    /\ round = 1
    /\ pc \in {"done", "failed"}
    /\ round' = 2
    /\ firstOutcome' = Outcome
    /\ warn' = ~warn
    /\ tape' = IF icv = 1 THEN <<>> ELSE <<StaleBlock>>
    /\ qoi_type' = qoi_type_kwarg
    /\ qoi' = "unset"
    /\ J' = 0
    /\ J_chk' = None
    /\ checkpoints' = <<>>
    /\ checkpoint_adj' = [seg \in 0 .. num_subintervals - 1 |->
                            [f \in Range(fields) |-> None]]
    /\ sols' = NoSols
    /\ sols_is' = ""
    /\ lagged_dep_idx' = [f \in Range(fields) |-> Unset]
    /\ controls' = None
    /\ seeds' = None
    /\ solutions' = None
    /\ i' = 0
    /\ fidx' = 0
    /\ pc' = "start"
    /\ error' = ""
    /\ warnings' = <<>>
    /\ calls' = <<>>
    /\ qoiEvals' = <<>>
    /\ phases' = <<>>
    /\ seedRead' = <<>>
    /\ seedAssigned' = <<>>
    /\ UNCHANGED <<num_subintervals, fields, spaceOf, icv, num_timesteps,
                   timesteps_per_export, test_checkpoint_qoi, get_adj_values,
                   steady, drift, badCall, badKind, qoi_num_args, qoi_type_kwarg,
                   untagged, elementOf, odd_block, over_solve, unnamed_seg, clear_tape_flag, optimized,
      num_solve_blocks, ratio_timesteps, ratio_outcome,
                   x_source, y_target, projected, source_b, proj_pc, kernelvars>>

InitTwin == Init /\ warn = TRUE
NextTwin == Next \/ Rerun
SpecTwin == InitTwin /\ [][NextTwin]_vars

\* ------------------------------------- one object, solve_adjoint called twice
\* A second call of solve_adjoint on the same AdjointMeshSeq: the attributes
\* (J, qoi, qoi_type, _lagged_dep_idx, warn) and the working tape are what the
\* first call left; the locals of solve_adjoint start afresh.
Reinvoke ==
    /\ round = 1
    /\ pc \in {"done", "failed"}
    /\ round' = 2
    /\ firstOutcome' = Outcome
    /\ checkpoints' = <<>>
    /\ checkpoint_adj' = [seg \in 0 .. num_subintervals - 1 |->
                            [f \in Range(fields) |-> None]]
    /\ J_chk' = None
    /\ sols' = NoSols
    /\ sols_is' = ""
    /\ controls' = None
    /\ seeds' = None
    /\ solutions' = None
    /\ i' = 0
    /\ fidx' = 0
    /\ pc' = "start"
    /\ error' = ""
    /\ warnings' = <<>>
    /\ calls' = <<>>
    /\ qoiEvals' = <<>>
    /\ phases' = <<>>
    /\ seedRead' = <<>>
    /\ seedAssigned' = <<>>
    /\ UNCHANGED <<num_subintervals, fields, spaceOf, icv, num_timesteps,
                   timesteps_per_export, test_checkpoint_qoi, get_adj_values, warn,
                   steady, drift, badCall, badKind, qoi_num_args, qoi_type_kwarg,
                   untagged, elementOf, odd_block, over_solve, unnamed_seg, clear_tape_flag, optimized,
      num_solve_blocks, ratio_timesteps, ratio_outcome,
                   qoi_type, qoi, J, lagged_dep_idx, tape,
                   x_source, y_target, projected, source_b, proj_pc, kernelvars>>

InitRepeat ==
    /\ ProjectionIdle /\ KernelIdle /\ ForwardIdle /\ InitRun
    /\ ~warn /\ ~get_adj_values
NextRepeat == Next \/ Reinvoke
SpecRepeat == InitRepeat /\ [][NextRepeat]_vars

\* ------------------------------------------------- MeshSeq.solve_forward
\* Lines 362-380: the archive of solve_forward, labels forward and forward_old.
ForwardArchive ==
    [f \in FieldSet |->
       [label \in {"forward", "forward_old"} |->
          [seg \in 1 .. num_subintervals |->
             [j \in 1 .. ExportsPerSubinterval - 1 |-> Function(spaceOf[seg - 1], 0)]]]]

\* Lines 359-389: self.function_spaces, the allocation, tape.clear_tape() and
\* checkpoint = self.initial_condition.
SolveForwardBegin ==
    /\ pc = "start"
    /\ IF ~function_spaces_consistent
       THEN /\ Fail("Meshes and function spaces are inconsistent")
            /\ UNCHANGED <<solutions, tape, checkpoints, i>>
       ELSE /\ solutions' = ForwardArchive
            /\ tape' = clear_tape(tape)
            /\ checkpoints' = <<InitialCondition>>
            /\ i' = 0
            /\ pc' = "sf_solve"
            /\ UNCHANGED error
    /\ UNCHANGED <<inputs, checkpoint_adj, qoi_type, qoi, J, J_chk, sols, sols_is,
                   lagged_dep_idx, controls, seeds, fidx, warnings, calls,
                   qoiEvals, phases, seedRead, seedAssigned>>

\* Line 393: checkpoint = solver(i, checkpoint), annotated.
SolveForwardSolve ==
    /\ pc = "sf_solve"
    /\ LET ic == checkpoints[1]
           g  == get_qoi(TRUE)
       IN
       /\ qoi_type' = g.qoi_type
       /\ qoi' = g.qoi
       /\ IF g.error # ""
          THEN /\ Fail(g.error)
               /\ calls' = Append(calls, [mode |-> "forward", seg |-> i, ic |-> ic,
                                          keys |-> {}, ret |-> <<>>])
               /\ UNCHANGED <<sols, tape, J, checkpoints, fidx>>
          ELSE /\ sols' = SolverReturn(i, ic, TRUE)
               /\ checkpoints' = <<SolverReturn(i, ic, TRUE).val>>
               /\ tape' = tape \o SolverBlocks(i, ic, 1)
               /\ J' = IF g.qoi_type = "time_integrated"
                       THEN (J + SolverJ(ic, TRUE)) % Modulus ELSE J
               /\ calls' = Append(calls, [mode |-> "forward", seg |-> i, ic |-> ic,
                                          keys |-> ReturnedKeys(i),
                                          ret |-> SolverReturn(i, ic, TRUE).val])
               /\ fidx' = 1
               /\ pc' = "sf_extract"
               /\ UNCHANGED error
    /\ UNCHANGED <<inputs, checkpoint_adj, J_chk, sols_is, lagged_dep_idx, controls,
                   seeds, solutions, i, warnings, qoiEvals, phases, seedRead,
                   seedAssigned>>

\* Line 418: the stride of solve_forward's extraction.
ForwardStride == timesteps_per_export

\* Lines 396-431 for the field of index fidx.
SolveForwardExtract ==
    /\ pc = "sf_extract"
    /\ fidx <= Len(fields)
    /\ LET f  == fields[fidx]
           r  == get_solve_blocks(tape, f, FALSE)
           sb == r.blocks
           n  == Len(sb)
       IN
       IF r.error # ""
       THEN /\ Fail(r.error)
            /\ warnings' = warnings \o r.warns
            /\ UNCHANGED <<solutions, lagged_dep_idx, fidx>>
       ELSE IF n = 0
       THEN /\ Fail("Looks like no solves were written to tape!")
            /\ warnings' = warnings \o r.warns
            /\ UNCHANGED <<solutions, lagged_dep_idx, fidx>>
       ELSE
       LET has_old     == "forward_old" \in DOMAIN solutions[f]
           fwd_old_idx == IF has_old THEN get_lagged_dependency_index(tape, f, i, sb)
                          ELSE None
           lagWarn     == IF has_old /\ lagged_dep_idx[f] = Unset /\ fwd_old_idx = None
                          THEN <<Warning("Solve block has no dependencies", f, i)>> ELSE <<>>
           sol1        == IF fwd_old_idx = None /\ has_old
                          THEN [solutions EXCEPT ![f] = Pop(@, "forward_old")]
                          ELSE solutions
           stride      == ForwardStride
           strided     == (n + stride - 1) \div stride
           sol2        == [sol1 EXCEPT ![f] =
                             [label \in DOMAIN sol1[f] |->
                                [sol1[f][label] EXCEPT ![i + 1] =
                                   [j \in DOMAIN sol1[f][label][i + 1] |->
                                      IF j - 1 < strided
                                      THEN Function(spaceOf[i],
                                             IF label = "forward"
                                             THEN tape[sb[(j - 1) * stride + 1]].out
                                             ELSE tape[sb[(j - 1) * stride + 1]].dep)
                                      ELSE sol1[f][label][i + 1][j]]]]]
       IN
       /\ lagged_dep_idx' = IF has_old
                            THEN [lagged_dep_idx EXCEPT ![f] = fwd_old_idx]
                            ELSE lagged_dep_idx
       /\ warnings' = warnings \o r.warns \o lagWarn
       /\ IF strided >= ExportsPerSubinterval
          THEN /\ Fail("ValueError: More solve blocks than expected")
               /\ solutions' = sol1
               /\ UNCHANGED fidx
          ELSE /\ solutions' = sol2
               /\ fidx' = fidx + 1
               /\ pc' = IF fidx = Len(fields) THEN "sf_clear" ELSE "sf_extract"
               /\ UNCHANGED error
    /\ UNCHANGED <<inputs, checkpoint_adj, qoi_type, qoi, J, J_chk, checkpoints, sols,
                   sols_is, tape, controls, seeds, i, calls, qoiEvals, phases,
                   seedRead, seedAssigned>>

\* Lines 433-435: the end of an iteration.
SolveForwardAdvance ==
    /\ pc = "sf_clear"
    /\ tape' = IF clear_tape_flag THEN clear_tape(tape) ELSE tape
    /\ i' = i + 1
    /\ pc' = IF i + 1 = num_subintervals THEN "done" ELSE "sf_solve"
    /\ UNCHANGED <<inputs, checkpoint_adj, qoi_type, qoi, J, J_chk, checkpoints, sols,
                   sols_is, lagged_dep_idx, controls, seeds, solutions, fidx, error,
                   warnings, calls, qoiEvals, phases, seedRead, seedAssigned>>

InitForward ==
    /\ ProjectionIdle
    /\ KernelIdle
    /\ InitRun
    /\ clear_tape_flag \in BOOLEAN
    /\ optimized = FALSE
    /\ RatioIdle
    /\ badCall = -2
    /\ ~test_checkpoint_qoi /\ ~get_adj_values

NextForward ==
    \/ SolveForwardBegin
    \/ SolveForwardSolve
    \/ SolveForwardExtract
    \/ SolveForwardAdvance

SpecForward == InitForward /\ [][NextForward]_vars

\* ------------------------------------------------ MeshSeq.get_checkpoints
\* The base-class method.  Lines 200-201.
BaseCheckpointsBegin ==
    /\ pc = "start"
    /\ checkpoints' = <<InitialCondition>>
    /\ i' = 0
    /\ pc' = "bc_solve"
    /\ UNCHANGED <<inputs, checkpoint_adj, qoi_type, qoi, J, J_chk, sols, sols_is,
                   lagged_dep_idx, tape, controls, seeds, solutions, fidx, error,
                   warnings, calls, qoiEvals, phases, seedRead, seedAssigned>>

\* Lines 207-212 call set.issubclass; Python's set has issubset only.
SetHasIssubclass == FALSE

\* One iteration of the loop of lines 202-219.
BaseCheckpointSolve ==
    /\ pc = "bc_solve"
    /\ i < num_subintervals
    /\ LET ic  == checkpoints[i + 1]
           ret == SolverReturn(i, ic, TRUE)
           g   == get_qoi(TRUE)
       IN
       /\ qoi_type' = g.qoi_type
       /\ qoi' = g.qoi
       /\ IF g.error # ""
          THEN /\ Fail(g.error)
               /\ calls' = Append(calls, [mode |-> "forward", seg |-> i, ic |-> ic,
                                          keys |-> {}, ret |-> <<>>])
               /\ UNCHANGED <<sols, tape, J, checkpoints, i>>
          ELSE /\ sols' = ret
               /\ tape' = tape \o SolverBlocks(i, ic, 1)
               /\ J' = IF g.qoi_type = "time_integrated"
                       THEN (J + SolverJ(ic, TRUE)) % Modulus ELSE J
               /\ calls' = Append(calls, [mode |-> "forward", seg |-> i, ic |-> ic,
                                          keys |-> ret.keys, ret |-> ret.val])
               /\ IF ~optimized /\ ~SetHasIssubclass
                  THEN /\ Fail("AttributeError: 'set' object has no attribute 'issubclass'")
                       /\ UNCHANGED <<checkpoints, i>>
                  ELSE IF ~optimized /\ ~(FieldSet \subseteq ret.keys)
                  THEN Fail("missing fields from solver") /\ UNCHANGED <<checkpoints, i>>
                  ELSE IF ~optimized /\ ~(ret.keys \subseteq FieldSet)
                  THEN Fail("more solver outputs than fields")
                         /\ UNCHANGED <<checkpoints, i>>
                  ELSE /\ checkpoints' =
                            IF i < num_subintervals - 1
                            THEN Append(checkpoints, NextCheckpoint(ret.val, i))
                            ELSE checkpoints
                       /\ i' = i + 1
                       /\ pc' = IF i + 1 = num_subintervals THEN "done" ELSE "bc_solve"
                       /\ UNCHANGED error
    /\ UNCHANGED <<inputs, checkpoint_adj, J_chk, sols_is, lagged_dep_idx, controls,
                   seeds, solutions, fidx, warnings, qoiEvals, phases, seedRead,
                   seedAssigned>>

InitBase ==
    /\ ProjectionIdle
    /\ KernelIdle
    /\ InitRun
    /\ clear_tape_flag = TRUE
    /\ optimized \in BOOLEAN
    /\ RatioIdle
    /\ badCall = -2

NextBase ==
    \/ BaseCheckpointsBegin
    \/ BaseCheckpointSolve

SpecBase == InitBase /\ [][NextBase]_vars

\* ------------------------------- the divisibility check of get_solve_blocks
\* Lines 280-289 on their own, for block counts up to MaxBlockCount and for
\* counts of the size at which the relative tolerance matters.
MaxBlockCount == 30
MaxRatioTimesteps == 4
LargeBlockCounts == {100000, 100001, 200002, 200003}
LargeTimesteps == {50000, 100000}

InitRatio ==
    /\ ProjectionIdle
    /\ KernelIdle
    /\ InitRun
    /\ num_subintervals = 1 /\ fields = <<"u">> /\ num_timesteps = 1
    /\ ~test_checkpoint_qoi /\ ~get_adj_values /\ ~warn
    /\ qoi_type_kwarg = "end_time" /\ qoi_num_args = 1
    /\ badCall = -2 /\ untagged = "" /\ odd_block = 0
    /\ ~over_solve /\ unnamed_seg = -2 /\ ~steady /\ icv = 1 /\ drift = 0
    /\ clear_tape_flag = TRUE /\ optimized = FALSE
    /\ num_solve_blocks \in (1 .. MaxBlockCount) \cup LargeBlockCounts
    /\ ratio_timesteps \in (0 .. MaxRatioTimesteps) \cup LargeTimesteps
    /\ ratio_outcome = ""

CheckRatio ==
    /\ ratio_outcome = ""
    /\ ratio_outcome' = LET e == RatioCheck(num_solve_blocks, ratio_timesteps)
                        IN  IF e = "" THEN "returned" ELSE e
    /\ UNCHANGED <<mainvars, projvars, kernelvars, num_solve_blocks, ratio_timesteps>>

NextRatio == CheckRatio
SpecRatio == InitRatio /\ [][NextRatio]_vars

\* ------------------------------------- kernel.py: metric_from_hessian
\* The loop of lines 255-260,
\*   for (i=0; i<d-1; i++) { for (j=i+1; i<d; i++) { ... } }
\* taken one test or one body at a time.  Entries of the Hessian are drawn
\* from HessianValues; both are even, so the mean of two entries is integral.
HessianValues == {0, 2}
HessianIndex(d) == (0 .. d - 1) \X (0 .. d - 1)

InitSymmetrise ==
    /\ NoRun
    /\ ProjectionIdle
    /\ kernel_d = None /\ kernel_D = None /\ kernel_Q = None
    /\ EVals = None /\ EVecs = None /\ kernel_pc = "idle"
    /\ hessian_d \in {2, 3}
    /\ hessian_B0 \in [HessianIndex(hessian_d) -> HessianValues]
    /\ hessian_B = hessian_B0
    /\ loop_i = 0
    /\ loop_j = None
    /\ loop_pc = "outer"
    /\ visited = <<>>

\* Line 256: the test i < d-1 of the outer loop, then j = i+1.
SymmetriseOuter ==
    /\ loop_pc = "outer"
    /\ IF loop_i < hessian_d - 1
       THEN loop_j' = loop_i + 1 /\ loop_pc' = "inner"
       ELSE loop_pc' = "solve" /\ UNCHANGED loop_j
    /\ UNCHANGED <<mainvars, ratiovars, projvars, kernel_d, kernel_D, kernel_Q, EVals,
                   EVecs, kernel_pc, hessian_d, hessian_B0, hessian_B, loop_i, visited>>

\* Lines 257-260: the test i < d of the inner loop, the body and i++.
SymmetriseInner ==
    /\ loop_pc = "inner"
    /\ loop_i < hessian_d
    /\ LET mean == (hessian_B[<<loop_i, loop_j>>] + hessian_B[<<loop_j, loop_i>>]) \div 2
       IN  hessian_B' = [hessian_B EXCEPT ![<<loop_i, loop_j>>] = mean,
                                          ![<<loop_j, loop_i>>] = mean]
    /\ visited' = Append(visited, <<loop_i, loop_j>>)
    /\ loop_i' = loop_i + 1
    /\ UNCHANGED <<mainvars, ratiovars, projvars, kernel_d, kernel_D, kernel_Q, EVals,
                   EVecs, kernel_pc, hessian_d, hessian_B0, loop_j, loop_pc>>

\* Lines 256-257: the inner test fails; the outer loop's i++.
SymmetriseInnerExit ==
    /\ loop_pc = "inner"
    /\ ~(loop_i < hessian_d)
    /\ loop_i' = loop_i + 1
    /\ loop_pc' = "outer"
    /\ UNCHANGED <<mainvars, ratiovars, projvars, kernel_d, kernel_D, kernel_Q, EVals,
                   EVecs, kernel_pc, hessian_d, hessian_B0, hessian_B, loop_j, visited>>

NextSymmetrise ==
    \/ SymmetriseOuter
    \/ SymmetriseInner
    \/ SymmetriseInnerExit

SpecSymmetrise == InitSymmetrise /\ [][NextSymmetrise]_vars

\* ------------------------------------------------ a pair of projections
\* mesh2mesh_project(x, B) and mesh2mesh_project_adjoint(y, A) for Functions
\* x of A and y of B, outside any run of solve_adjoint.

InitProjection ==
    /\ NoRun
    /\ KernelIdle
    /\ \E A \in Spaces, B \in Spaces, x \in Vectors, y \in Vectors :
          /\ x_source = Function(A, x)
          /\ y_target = Function(B, y)
    /\ projected = None
    /\ source_b = None
    /\ proj_pc = "input"

ProjectForward ==
    /\ proj_pc = "input"
    /\ projected' = mesh2mesh_project(x_source, y_target.fs, FALSE)
    /\ proj_pc' = "forward"
    /\ UNCHANGED <<num_subintervals, fields, spaceOf, icv, num_timesteps,
                   timesteps_per_export, test_checkpoint_qoi, get_adj_values, warn,
                   steady, drift, badCall, badKind, qoi_num_args, qoi_type_kwarg,
                   untagged, elementOf, odd_block, over_solve, unnamed_seg, clear_tape_flag, optimized,
      num_solve_blocks, ratio_timesteps, ratio_outcome, round, firstOutcome,
                   x_source, y_target, source_b, kernelvars, qoi_type, qoi, J, J_chk,
                   checkpoints, checkpoint_adj, sols, sols_is, lagged_dep_idx, tape, controls,
                   seeds, solutions, i, fidx, pc, error, warnings, history>>

ProjectAdjoint ==
    /\ proj_pc = "forward"
    /\ source_b' = mesh2mesh_project(y_target, x_source.fs, TRUE)
    /\ proj_pc' = "adjoint"
    /\ UNCHANGED <<num_subintervals, fields, spaceOf, icv, num_timesteps,
                   timesteps_per_export, test_checkpoint_qoi, get_adj_values, warn,
                   steady, drift, badCall, badKind, qoi_num_args, qoi_type_kwarg,
                   untagged, elementOf, odd_block, over_solve, unnamed_seg, clear_tape_flag, optimized,
      num_solve_blocks, ratio_timesteps, ratio_outcome, round, firstOutcome,
                   x_source, y_target, projected, kernelvars, qoi_type, qoi, J, J_chk,
                   checkpoints, checkpoint_adj, sols, sols_is, lagged_dep_idx, tape, controls,
                   seeds, solutions, i, fidx, pc, error, warnings, history>>

NextProjection == ProjectForward \/ ProjectAdjoint
SpecProjection == InitProjection /\ [][NextProjection]_vars

\* ------------------------------------ kernel.get_reordered_eigendecomposition
MaxEig == 2
fabs_signed(x) == x
fabs(x) == IF x < 0 THEN -x ELSE x

\* Lines 157-166 and 187-231: the branch taken names, for every output
\* column, the input column copied into EVecs and the entry copied into
\* EVals (columns counted from 1).
ReorderBranch(d, D) ==
    IF d = 2
    THEN IF fabs(D[1]) > fabs(D[2])
         THEN [vecs |-> <<1, 2>>, vals |-> <<1, 2>>]
         ELSE [vecs |-> <<2, 1>>, vals |-> <<2, 1>>]
    ELSE IF fabs(D[1]) > fabs(D[2])
         THEN IF fabs(D[2]) > fabs(D[3])
              THEN [vecs |-> <<1, 2, 3>>, vals |-> <<1, 2, 3>>]
              ELSE IF fabs(D[1]) > fabs(D[3])
              THEN [vecs |-> <<1, 3, 2>>, vals |-> <<1, 3, 2>>]
              ELSE [vecs |-> <<3, 1, 2>>, vals |-> <<3, 1, 2>>]
         ELSE IF fabs(D[1]) > fabs(D[3])
              THEN [vecs |-> <<2, 1, 3>>, vals |-> <<2, 1, 3>>]
              ELSE IF fabs(D[2]) > fabs(D[3])
              THEN [vecs |-> <<2, 3, 1>>, vals |-> <<2, 3, 1>>]
              ELSE [vecs |-> <<3, 2, 1>>, vals |-> <<3, 2, 1>>]

\* Matrices the eigensolver may hand over as eigenvectors: rows of entries.
IndexMatrix(d) == [r \in 1 .. d |-> [c \in 1 .. d |-> d * (r - 1) + c]]
IdentityMatrix(d) == [r \in 1 .. d |-> [c \in 1 .. d |-> IF r = c THEN 1 ELSE 0]]
EigenvectorChoices(d) == {IndexMatrix(d), IdentityMatrix(d)}

InitReorder ==
    /\ NoRun
    /\ ProjectionIdle
    /\ SymmetriseIdle
    /\ kernel_d \in {2, 3}
    /\ kernel_D \in [1 .. kernel_d -> -MaxEig .. MaxEig]
    /\ kernel_Q \in EigenvectorChoices(kernel_d)
    /\ EVals = None
    /\ EVecs = None
    /\ kernel_pc = "solved"

\* Lines 156-166 (d = 2) and 186-231 (d = 3).
Reorder ==
    /\ kernel_pc = "solved"
    /\ LET b == ReorderBranch(kernel_d, kernel_D) IN
       /\ EVals' = [c \in 1 .. kernel_d |-> kernel_D[b.vals[c]]]
       /\ EVecs' = [r \in 1 .. kernel_d |->
                      [c \in 1 .. kernel_d |-> kernel_Q[r][b.vecs[c]]]]
    /\ kernel_pc' = "reordered"
    /\ UNCHANGED <<mainvars, ratiovars, projvars, symvars, kernel_d, kernel_D, kernel_Q>>

NextReorder == Reorder
SpecReorder == InitReorder /\ [][NextReorder]_vars

\* ================================================================ claims
IsPrefix(a, b) == Len(a) <= Len(b) /\ SubSeq(b, 1, Len(a)) = a
SharedDiscretization == \A seg \in DOMAIN spaceOf : spaceOf[seg] = spaceOf[0]
Completed == pc = "done"

\* ---- reference: one annotated solve over the whole time interval
TotalTimesteps == num_subintervals * SolverSteps
RefTrajectory(f) ==
    Trajectory(FieldIndex(f), InitialCondition[f].val, TotalTimesteps, TRUE)

RefJ ==
    LET perField == [f \in FieldSet |->
            IF qoi_type = "end_time" THEN QoIValue(RefTrajectory(f)[TotalTimesteps + 1])
            ELSE SumOver(2 .. TotalTimesteps + 1,
                         [k \in 2 .. TotalTimesteps + 1 |-> QoIValue(RefTrajectory(f)[k])])]
    IN  SumOver(FieldSet, perField) % Modulus

\* dJ/du_k for the state after k timesteps, 1 <= k <= TotalTimesteps.
RECURSIVE RefLambda(_, _)
RefLambda(f, k) ==
    LET u == RefTrajectory(f)[k + 1]
    IN  IF k = TotalTimesteps THEN QoIDerivative(u)
        ELSE ((IF qoi_type = "time_integrated" THEN QoIDerivative(u) ELSE 0)
                + SolverStepDerivative(u) * RefLambda(f, k + 1)) % Modulus

RefAction(f) == (SolverStepDerivative(RefTrajectory(f)[1]) * RefLambda(f, 1)) % Modulus

\* C1: segmentation invariance.  On one shared discretization and with a
\* solver that tags its solves and steps the same way annotated or not, a
\* completed solve_adjoint
\* leaves the QoI, the adjoint solution of the first export of subinterval 0
\* and the adjoint action at t=0 equal to those of one annotated solve over
\* the whole interval, which depend on the total number of timesteps only:
\* N=1 and N=2 subintervals of the same interval give the same result.
SegmentationInvariance ==
    (Completed /\ SharedDiscretization /\ drift = 0 /\ untagged = "") =>
        /\ J = RefJ
        /\ \A f \in FieldSet :
             /\ solutions[f]["adjoint"][1][1].val = RefLambda(f, 1)
             /\ get_adj_values => solutions[f]["adj_value"][1][1].val = RefAction(f)

SegmentationInvarianceWitness ==
    /\ Completed /\ SharedDiscretization /\ drift = 0 /\ untagged = ""
    /\ num_subintervals = 2 /\ num_timesteps = 1 /\ get_adj_values
    /\ test_checkpoint_qoi /\ badCall = -2
    /\ J # 0
    /\ \E f \in FieldSet : solutions[f]["adjoint"][1][1].val # 0
                             /\ solutions[f]["adj_value"][1][1].val # 0

\* C2: the phases of solve_adjoint run in the order checkpointing, then for
\* i = N-1 down to 0: replay, seed, backward, extract, propagate; every
\* forward-only solve precedes every recording solve.
RECURSIVE ExpectedPhases(_)
ExpectedPhases(seg) ==
    IF seg < 0 THEN <<>>
    ELSE << <<"replay", seg>>, <<"seed", seg>>, <<"backward", seg>>,
            <<"extract", seg>>, <<"propagate", seg>> >> \o ExpectedPhases(seg - 1)

PhaseOrder ==
    /\ IsPrefix(phases, << <<"checkpoint", -1>> >> \o ExpectedPhases(num_subintervals - 1))
    /\ Completed => phases = << <<"checkpoint", -1>> >> \o ExpectedPhases(num_subintervals - 1)
    /\ \A a, b \in DOMAIN calls :
         (calls[a].mode = "record" /\ calls[b].mode = "forward") => b < a

PhaseOrderWitness ==
    /\ Completed /\ num_subintervals = 3 /\ Len(phases) = 16

\* C3: seed hand-off.  The adj_value assigned to the solver output on an
\* interior subinterval i is the adjoint projection into subinterval i's space
\* of the seed read off the controls at the end of subinterval i+1, and it is
\* what the backward sweep of subinterval i starts from; the last subinterval
\* gets no cross-segment seed.
SeedReadOf(seg) == CHOOSE r \in Range(seedRead) : r.seg = seg

SeedHandOff ==
    /\ \A k \in DOMAIN seedAssigned :
         LET a == seedAssigned[k] IN
         /\ a.seg < num_subintervals - 1
         /\ Cardinality({r \in DOMAIN seedRead : seedRead[r].seg = a.seg + 1}) = 1
         /\ \A f \in FieldSet :
              a.adj[f] = mesh2mesh_project_adjoint(SeedReadOf(a.seg + 1).seeds[f],
                                                   spaceOf[a.seg])
    /\ (pc \in {"backward", "extract", "propagate"}) =>
         IF i = num_subintervals - 1
         THEN \A f \in FieldSet : sols.adj[f] = None
         ELSE /\ \E k \in DOMAIN seedAssigned : seedAssigned[k].seg = i
              /\ \A f \in FieldSet :
                   sols.adj[f] = mesh2mesh_project_adjoint(SeedReadOf(i + 1).seeds[f],
                                                           spaceOf[i]).val

SeedHandOffWitness ==
    /\ pc = "backward" /\ i = 0 /\ num_subintervals = 3
    /\ spaceOf[0] # spaceOf[1]
    /\ \E f \in FieldSet :
         /\ SeedReadOf(1).seeds[f].val # 0
         /\ SeedReadOf(1).seeds[f] # SeedReadOf(2).seeds[f]
         /\ sols.adj[f] # SeedReadOf(1).seeds[f].val

\* C4: tape invariant.  The tape is empty when a replay begins and when the
\* sweep is over, and in between it holds blocks of the current subinterval
\* only.
TapeInvariant ==
    /\ pc \in {"replay", "check", "done"} => tape = <<>>
    /\ pc \in {"seed", "backward", "extract", "propagate"} =>
         /\ SolverSteps > 0 => tape # <<>>
         /\ \A p \in DOMAIN tape : tape[p].seg = i

TapeInvariantWitness ==
    /\ pc = "seed" /\ i = 0 /\ num_subintervals = 2
    /\ Len(tape) >= 2

\* C5: checkpoint/replay consistency.  With a time-integrated QoI, the
\* cross-check requested and a solver that steps the same way annotated or
\* not, the J of the checkpoint pass equals the J accumulated by the replays,
\* and the consistency assertion does not fail.
CheckpointReplayConsistency ==
    (qoi_type = "time_integrated" /\ test_checkpoint_qoi /\ drift = 0) =>
        /\ pc \in {"check", "done"} => J_chk = J
        /\ error # "QoI values computed during checkpointing and annotated run do not match"

CheckpointReplayConsistencyWitness ==
    /\ Completed /\ qoi_type = "time_integrated" /\ test_checkpoint_qoi /\ drift = 0
    /\ num_subintervals = 3 /\ J # 0
    /\ \E a, b \in DOMAIN calls : calls[a].mode = "record" /\ calls[b].mode = "record"
                                    /\ calls[a].ic # calls[b].ic

MismatchError == "QoI values computed during checkpointing and annotated run do not match"

\* C6 as stated: whenever the cross-check is requested and J_chk differs from
\* J after the reverse sweep, solve_adjoint does not return the archive,
\* whatever the QoI type.
ConsistencyFailureAnyQoI ==
    (Completed /\ test_checkpoint_qoi) => J_chk = J

\* C6 as amended: with the cross-check requested and a time-integrated QoI, a
\* J_chk that differs from J is fatal and no archive is returned; the fatal
\* mismatch is raised in that case only (an end-time QoI is never compared).
ConsistencyFailureTimeIntegrated ==
    /\ (Completed /\ test_checkpoint_qoi /\ qoi_type = "time_integrated") => J_chk = J
    /\ error = MismatchError =>
         (pc = "failed" /\ test_checkpoint_qoi /\ qoi_type = "time_integrated" /\ J_chk # J)

ConsistencyFailureWitness ==
    /\ pc = "failed" /\ error = MismatchError
    /\ J_chk # J /\ num_subintervals = 2

\* C7: get_checkpoints calls the solver once per subinterval 0..N-2 in
\* increasing order, each time from that subinterval's checkpoint, and for
\* subinterval N-1 iff run_final_subinterval; N=1 without the final
\* subinterval makes no call and returns the initial condition only.
IsForward(c) == c.mode = "forward"
ForwardCalls == SelectSeq(calls, IsForward)
CheckpointsReturned ==
    pc \in {"capture", "replay", "seed", "backward", "extract", "propagate", "check", "done"}

CheckpointSolves ==
    /\ \A k \in DOMAIN ForwardCalls :
         /\ ForwardCalls[k].seg = k - 1
         /\ k <= Len(checkpoints)
         /\ ForwardCalls[k].ic = checkpoints[k]
    /\ Len(ForwardCalls) <= (IF test_checkpoint_qoi THEN num_subintervals
                             ELSE num_subintervals - 1)
    /\ CheckpointsReturned =>
         Len(ForwardCalls) = (IF test_checkpoint_qoi THEN num_subintervals
                              ELSE num_subintervals - 1)
    /\ (CheckpointsReturned /\ num_subintervals = 1 /\ ~test_checkpoint_qoi) =>
         (ForwardCalls = <<>> /\ checkpoints = <<InitialCondition>>)

CheckpointSolvesWitness ==
    /\ pc = "capture" /\ num_subintervals = 3 /\ ~test_checkpoint_qoi
    /\ Len(ForwardCalls) = 2
    /\ ForwardCalls[2].ic # ForwardCalls[1].ic

\* C8: get_checkpoints returns one checkpoint per subinterval: the initial
\* condition, then for every i < N-1 the projection of subinterval i's
\* returned state into the space of subinterval i+1.
CheckpointList ==
    CheckpointsReturned =>
        /\ Len(checkpoints) = num_subintervals
        /\ checkpoints[1] = InitialCondition
        /\ \A k \in 1 .. num_subintervals - 1 :
             /\ DOMAIN checkpoints[k + 1] = FieldSet
             /\ \A f \in FieldSet :
                  checkpoints[k + 1][f] =
                      mesh2mesh_project_forward(ForwardCalls[k].ret[f], spaceOf[k])

CheckpointListWitness ==
    /\ pc = "capture" /\ num_subintervals = 3 /\ test_checkpoint_qoi
    /\ spaceOf[1] # spaceOf[0] /\ spaceOf[2] # spaceOf[1]
    /\ \E f \in FieldSet : checkpoints[2][f].val # ForwardCalls[1].ret[f].val

\* C9 as stated: get_checkpoints evaluates the end-time QoI only when
\* run_final_subinterval is true, once, on the output of subinterval N-1;
\* otherwise it evaluates no QoI and J stays 0.
EndTimeQoIOnlyOnFinal ==
    /\ Len(qoiEvals) <= 1
    /\ \A k \in DOMAIN qoiEvals :
         test_checkpoint_qoi /\ qoiEvals[k].seg = num_subintervals - 1
    /\ (pc = "capture" /\ qoi_type = "end_time" /\ ~test_checkpoint_qoi) => J = 0

\* C10 as stated: a solver invocation (forward-only or recording) or an
\* initial condition whose field set is not exactly the declared fields ends
\* the run at once.
FieldSetValidated ==
    /\ (\E k \in DOMAIN calls : calls[k].keys # FieldSet) => pc = "failed"
    /\ (InitialConditionKeys # FieldSet /\ pc # "start") => pc = "failed"

\* C11: get_qoi classifies the QoI by its number of positional arguments:
\* once it ran, qoi_type is 'end_time' for one argument and 'time_integrated'
\* for two, whatever type was declared at construction; any other count raises
\* the ValueError and leaves qoi_type and the stored qoi as they were.
QoIClassification ==
    /\ qoi # "unset" =>
         (qoi_num_args \in {1, 2} /\ qoi_type = QoITypeOfCount(qoi_num_args))
    /\ qoi = "unset" => qoi_type = qoi_type_kwarg
    /\ (calls # <<>> /\ qoi_num_args \in {1, 2}) => qoi # "unset"
    /\ (calls # <<>> /\ qoi_num_args \notin {1, 2}) =>
         (pc = "failed" /\ error = ArityError /\ qoi = "unset")
    /\ error = ArityError => qoi_num_args \notin {1, 2}

QoIClassificationWitness ==
    /\ Completed /\ num_subintervals = 2
    /\ qoi_type_kwarg = "time_integrated" /\ qoi_type = "end_time"
    /\ qoi = "wrapper" /\ J # 0

\* C12 as stated: a declared field without solve blocks of its own on the
\* tape after a replay aborts solve_adjoint in that segment: the extraction of
\* the segment does not finish, no archive is returned and no earlier segment
\* is replayed.
IsRecord(c) == c.mode = "record"
RecordCalls == SelectSeq(calls, IsRecord)
OwnBlocks(f) == {p \in DOMAIN tape : tape[p].kind = "solve" /\ tape[p].tag = f}

EmptyTraceAborts ==
    /\ pc = "propagate" => \A f \in FieldSet : OwnBlocks(f) # {}
    /\ untagged # "" => (~Completed /\ Len(RecordCalls) <= 1)

\* C13: a field whose function-space element on some segment differs from
\* the element on segment 0, or whose recorded solve blocks differ in element
\* from the declared space, makes the run fail: with differing declared
\* elements no solver call is made, with a differing solve block the
\* extraction of the segment is not completed, and no archive is returned.
BlockElementsDiffer ==
    \E p \in DOMAIN tape : /\ tape[p].kind = "solve"
                            /\ tape[p].tag \in FieldSet
                            /\ tape[p].element # elementOf[0]

DiscretizationMismatchFatal ==
    /\ DeclaredElementsDiffer => (pc \in {"start", "failed"} /\ calls = <<>>)
    /\ BlockElementsDiffer => pc \in {"seed", "backward", "extract", "failed"}
    /\ (pc = "extract" /\ BlockElementsDiffer) =>
         \A k \in 1 .. fidx - 1 : \A p \in DOMAIN tape :
            (tape[p].kind = "solve" /\ InTag(fields[k], tape[p].tag))
               => tape[p].element = elementOf[0]
    /\ Completed => (~DeclaredElementsDiffer /\ odd_block = 0)

DiscretizationMismatchWitness ==
    /\ pc = "failed" /\ error = ElementError
    /\ odd_block = 1 /\ fidx = 2 /\ fields = <<"u", "v">>
    /\ sols_is = "u"

\* C14 as stated: a field with exactly (E-1)*s solve blocks on segment i has
\* its E-1 export entries filled, entry j from block j*s, without an over-run
\* warning; a field with (E-1)*s + s solve blocks does not abort the run, and
\* its extraction emits the over-run warning and still fills E-1 entries.
Stride == timesteps_per_export * solves_per_timestep
Extracted(f) == pc = "propagate" \/ (pc = "extract" /\ FieldIndex(f) < fidx)
OverRunWarned(f) ==
    \E k \in DOMAIN warnings :
       warnings[k] = Warning("More solve blocks than expected", f, i)
EntriesFilled(f) ==
    LET sb == FieldBlockIndices(tape, f, 1) IN
    /\ Len(solutions[f]["forward"][i + 1]) = ExportsPerSubinterval - 1
    /\ \A j \in 0 .. ExportsPerSubinterval - 2 :
          solutions[f]["forward"][i + 1][j + 1]
             = Function(spaceOf[i], tape[sb[j * Stride + 1]].out)
SolveBlockCount(f) == Len(FieldBlockIndices(tape, f, 1))

ExactStrideFilled ==
    \A f \in FieldSet :
       (SolveBlockCount(f) = (ExportsPerSubinterval - 1) * Stride /\ Extracted(f))
          => (EntriesFilled(f) /\ ~OverRunWarned(f))

OverRunSurvived ==
    \A f \in FieldSet :
       (SolveBlockCount(f) = ExportsPerSubinterval * Stride /\ Extracted(f))
          => (EntriesFilled(f) /\ OverRunWarned(f))

StrideBookkeeping ==
    /\ ExactStrideFilled
    /\ OverRunSurvived
    /\ \A f \in FieldSet :
          (over_solve /\ SolveBlockCount(f) = ExportsPerSubinterval * Stride)
             => pc # "failed"

\* C15 as stated: for a problem with one segment and one solve block per
\* field, the archive returned by solve_adjoint holds no 'adjoint_next' label
\* for any field, whether or not steady was passed at construction.
SteadySuppression ==
    (Completed /\ num_subintervals = 1 /\ SolverSteps = 1)
       => \A f \in FieldSet : "adjoint_next" \notin DOMAIN solutions[f]

\* C16 as stated: for a non-steady problem, at every export stride,
\* adjoint_next[i][j] of an export j other than the last of segment i is the
\* adjoint solution of the block after the governing one, and that of the
\* last export of a segment i < N-1 is the adjoint projection into segment
\* i's space of adjoint_next[i+1][0].
HasAdjointNext(f) == "adjoint_next" \in DOMAIN solutions[f]
NonSteady(f) == ~DetectSteady(SolveBlockCount(f)) /\ HasAdjointNext(f)
NextInSegment(f, j) ==
    LET sb == FieldBlockIndices(tape, f, 1) IN
    solutions[f]["adjoint_next"][i + 1][j + 1]
       = Function(spaceOf[i], tape[sb[j * Stride + 2]].adj_sol)
Stitched(f, seg, j) ==
    solutions[f]["adjoint_next"][seg + 1][j + 1]
       = project(solutions[f]["adjoint_next"][seg + 2][1], spaceOf[seg], TRUE)

AdjointNextAnyStride ==
    \A f \in FieldSet : (Extracted(f) /\ NonSteady(f)) =>
       \A j \in 0 .. ExportsPerSubinterval - 2 :
          /\ j < ExportsPerSubinterval - 2 => NextInSegment(f, j)
          /\ (j = ExportsPerSubinterval - 2 /\ i < num_subintervals - 1)
                => Stitched(f, i, j)

\* C16 (amended): adjoint_next[i][j] is the adjoint solution of block
\* j*stride+1 of the field's solve blocks on segment i whenever that block
\* exists; when j*stride+1 equals the number of blocks (the last export at
\* stride 1) and i < N-1 it is the adjoint projection into segment i's space
\* of adjoint_next[i+1][0].  At stride 1, when get_solve_blocks returns one
\* block per timestep for every field, the returned archive is stitched in
\* this way at the last export of every segment but the last: the entry read
\* had its final value.
OneBlockPerTimestep ==
    /\ ~over_solve /\ untagged = ""
    /\ \A f, g \in FieldSet : InTag(f, g) => f = g

AdjointNextByBlock ==
    \A f \in FieldSet :
       /\ (Extracted(f) /\ NonSteady(f)) =>
             \A j \in 0 .. ExportsPerSubinterval - 2 :
                /\ j * Stride + 1 < SolveBlockCount(f) => NextInSegment(f, j)
                /\ (j * Stride + 1 = SolveBlockCount(f) /\ i < num_subintervals - 1)
                      => Stitched(f, i, j)
       /\ (Completed /\ HasAdjointNext(f) /\ Stride = 1 /\ OneBlockPerTimestep) =>
             \A seg \in 0 .. num_subintervals - 2 :
                Stitched(f, seg, ExportsPerSubinterval - 2)

AdjointNextByBlockWitness ==
    /\ pc = "propagate" /\ i = 0 /\ num_subintervals = 2
    /\ num_timesteps = 2 /\ Stride = 1 /\ spaceOf[1] # spaceOf[0]
    /\ HasAdjointNext(fields[1]) /\ OneBlockPerTimestep
    /\ solutions[fields[1]]["adjoint_next"][1][2].val \notin {0, None}
    /\ solutions[fields[1]]["adjoint_next"][1][1].val \notin {0, None}
    /\ Stitched(fields[1], 0, 1) /\ NextInSegment(fields[1], 0)

\* C17 as stated: adjoint[i][j] is the governing solve block's adjoint
\* solution when the backward sweep produced one and a zero-valued function
\* otherwise; the missing-adjoint warning is emitted for a field on a segment
\* when the sweep produced none, and not when it produced one.
GoverningBlock(f, j) == tape[FieldBlockIndices(tape, f, 1)[j * Stride + 1]]
SweepAdjoint(b) == OutputAdjoint(tape, i, b.field, b.step, sols.adj)
NoAdjointWarned(f) ==
    \E k \in DOMAIN warnings :
       warnings[k] = Warning("No block has an adjoint solution", f, i)

AdjointFromGoverningBlock ==
    \A f \in FieldSet : Extracted(f) =>
       \A j \in 0 .. ExportsPerSubinterval - 2 :
          LET a == SweepAdjoint(GoverningBlock(f, j)) IN
          solutions[f]["adjoint"][i + 1][j + 1]
             = Function(spaceOf[i], IF a = None THEN 0 ELSE a)

AdjointOrZeroWithWarning ==
    /\ AdjointFromGoverningBlock
    /\ \A f \in FieldSet : Extracted(f) =>
          \A j \in 0 .. ExportsPerSubinterval - 2 :
             NoAdjointWarned(f) <=> SweepAdjoint(GoverningBlock(f, j)) = None

\* C18 as stated: from its allocation until solve_adjoint returns, the
\* archive keeps for every field the same set of labels and, for every label
\* and segment, the same number of export entries.
SweepPositions == {"replay", "seed", "backward", "extract", "propagate", "check"}
EntryCountsFixed ==
    \A f \in FieldSet : \A label \in DOMAIN solutions'[f] :
       /\ DOMAIN solutions'[f][label] = 1 .. num_subintervals
       /\ \A seg \in 1 .. num_subintervals :
             Len(solutions'[f][label][seg]) = ExportsPerSubinterval - 1

Ended == pc \in {"done", "failed"}
WarningsDoNotChangeBehaviour ==
    (round = 2 /\ Ended) =>
       /\ pc = firstOutcome.pc
       /\ error = firstOutcome.error
       /\ calls = firstOutcome.calls
       /\ J = firstOutcome.J
       /\ (pc = "done" => solutions = firstOutcome.solutions)

HasWarning(ws, msg) == \E k \in DOMAIN ws : ws[k].msg = msg
WarningsDoNotChangeBehaviourWitness ==
    /\ round = 2 /\ Completed /\ ~warn
    /\ HasWarning(firstOutcome.warnings, "Adjoint solution is zero")
    /\ ~HasWarning(warnings, "Adjoint solution is zero")
    /\ num_subintervals = 2 /\ J # 0

\* C20: for two distinct function spaces A and B, every x of A and every
\* seed y of B, the dof-wise inner product of mesh2mesh_project(x, B) with y
\* equals that of x with mesh2mesh_project_adjoint(y, A).
CrossMeshAdjointIdentity ==
    (proj_pc = "adjoint" /\ x_source.fs # y_target.fs) =>
       Dot(projected.val, y_target.val) = Dot(x_source.val, source_b.val)

CrossMeshAdjointIdentityWitness ==
    /\ proj_pc = "adjoint" /\ x_source.fs = 1 /\ y_target.fs = 2
    /\ projected.fs = 2 /\ source_b.fs = 1
    /\ Dot(projected.val, y_target.val) \notin {0, Dot(x_source.val, y_target.val)}
    /\ Dot(x_source.val, source_b.val) = Dot(projected.val, y_target.val)
    /\ x_source.val[1] # x_source.val[2] /\ y_target.val[1] # y_target.val[2]

\* The replays of the sweep against the checkpoints (C21).
ReplaysFromCheckpoints ==
    /\ \A k \in DOMAIN RecordCalls :
         /\ RecordCalls[k].seg = num_subintervals - k
         /\ RecordCalls[k].ic =
               [f \in FieldSet |-> checkpoints[RecordCalls[k].seg + 1][f]]
    /\ Completed => Len(RecordCalls) = num_subintervals
CheckpointsUntouched ==
    \A seg \in DOMAIN checkpoint_adj : \A f \in FieldSet :
       checkpoint_adj[seg][f] = None

SweepStepKeepsCheckpoints ==
    pc \in SweepPositions =>
       /\ checkpoints' = checkpoints
       /\ ReplaysFromCheckpoints'
       /\ CheckpointsUntouched'

\* C21: during the reverse sweep checkpoint i is passed to exactly one
\* replay, that of segment i; the controls wrap deep copies, so no adj_value
\* is ever written on a checkpoint's Function, and no step of the sweep
\* changes a checkpoint returned by get_checkpoints.
CheckpointsFrame == [][SweepStepKeepsCheckpoints]_vars

CheckpointsFrameWitness ==
    /\ Completed /\ num_subintervals = 3 /\ Len(RecordCalls) = 3
    /\ spaceOf[1] # spaceOf[0]
    /\ RecordCalls[1].ic # RecordCalls[2].ic /\ RecordCalls[2].ic # RecordCalls[3].ic
    /\ controls[1].adj_value \notin {0, None}
    /\ CheckpointsUntouched

\* C22: the output eigenvalues are the input eigenvalues permuted so that
\* their magnitudes do not increase, and the output eigenvector columns are
\* the input columns under the same permutation.
ColumnPermutations(d) ==
    {p \in [1 .. d -> 1 .. d] : \A a, b \in 1 .. d : p[a] = p[b] => a = b}

ReorderedEigendecomposition ==
    kernel_pc = "reordered" =>
       /\ \E p \in ColumnPermutations(kernel_d) :
             /\ \A c \in 1 .. kernel_d : EVals[c] = kernel_D[p[c]]
             /\ \A r, c \in 1 .. kernel_d : EVecs[r][c] = kernel_Q[r][p[c]]
       /\ \A c \in 1 .. kernel_d - 1 :
             EVals[c] * EVals[c] >= EVals[c + 1] * EVals[c + 1]

ReorderedEigendecompositionWitness ==
    /\ kernel_pc = "reordered" /\ kernel_d = 3
    /\ kernel_D = <<-1, 2, 1>> /\ EVals = <<2, 1, -1>>
    /\ kernel_Q = IndexMatrix(3) /\ EVecs[1] = <<2, 3, 1>>

\* C23: get_lagged_dependency_index resolves the index of a field at most
\* once per object.  The step that resolves it stores the match of the first
\* solve block's dependency by function space and name (None when there is
\* none, with the warning); once stored, the index never changes, whatever the
\* blocks of the later subintervals look like, and the extraction uses it: a
\* cached index keeps the 'forward_old' label, a cached None raises no
\* further warning.
NoDependencyWarnings(w, f) ==
    Cardinality({k \in DOMAIN w :
                   w[k].msg = "Solve block has no dependencies" /\ w[k].field = f})
FirstBlockMatches(f) ==
    LET sb == FieldBlockIndices(tape, f, 1)
    IN  /\ tape[sb[1]].fs = spaceOf[i]
        /\ tape[sb[1]].dep_name = OldName(f)
LaggedIndexStep ==
    \A f \in Range(fields) :
       /\ lagged_dep_idx[f] # Unset =>
             /\ lagged_dep_idx'[f] = lagged_dep_idx[f]
             /\ (round' = round =>
                   NoDependencyWarnings(warnings', f) = NoDependencyWarnings(warnings, f))
             /\ (pc = "extract" /\ lagged_dep_idx[f] # None
                   /\ "forward_old" \in DOMAIN solutions[f]
                   => "forward_old" \in DOMAIN solutions'[f])
       /\ lagged_dep_idx[f] = Unset /\ lagged_dep_idx'[f] # Unset =>
             /\ lagged_dep_idx'[f] = IF FirstBlockMatches(f) THEN 0 ELSE None
             /\ NoDependencyWarnings(warnings', f)
                  = NoDependencyWarnings(warnings, f)
                      + (IF FirstBlockMatches(f) THEN 0 ELSE 1)
SweepStartsFromZero ==
    /\ (pc = "capture" /\ pc' = "replay") => J_chk' = J /\ J' = 0
    /\ (pc' = "replay" /\ i' = num_subintervals - 1) => J' = 0
    /\ (round' = 2 /\ pc' = "done" /\ firstOutcome'.pc = "done") =>
          /\ J' = firstOutcome'.J
          /\ J_chk' = firstOutcome'.J_chk
AccumulatorPerInvocation == [][SweepStartsFromZero]_vars
\* The second invocation on an object whose first left a non-zero J.
AccumulatorPerInvocationWitness ==
    /\ round = 2 /\ pc = "done"
    /\ firstOutcome.pc = "done" /\ firstOutcome.J # 0
    /\ J = firstOutcome.J /\ J_chk # 0
    /\ qoi_type = "time_integrated" /\ num_subintervals >= 2

\* C25 as stated: in the archive solve_forward returns, forward[i][j] is the
\* output of the solve block at index j*stride among the blocks recorded
\* while solving subinterval i (and forward_old[i][j] that block's lagged
\* dependency), with clear_tape=True and with clear_tape=False, for N >= 2
\* as for N = 1: a solver that does what the time partition says gets its
\* archive back.
SegmentStepValue(f, seg, step, label) ==
    LET c == calls[seg + 1]
        t == Trajectory(FieldIndex(f), c.ic[f].val, SolverSteps, TRUE)
    IN  IF label = "forward" THEN t[step + 1] ELSE t[step]
ForwardArchiveOfSegmentBlocks ==
    (~over_solve /\ untagged = "" /\ odd_block = 0 /\ function_spaces_consistent
       /\ qoi_num_args \in {1, 2} /\ num_timesteps > 0 /\ Len(fields) = 1
       /\ pc \notin {"start", "sf_solve", "sf_extract", "sf_clear"}) =>
       /\ pc = "done"
       /\ \A f \in FieldSet : \A label \in DOMAIN solutions[f] :
            \A seg \in 0 .. num_subintervals - 1 :
              \A j \in 0 .. ExportsPerSubinterval - 2 :
                 solutions[f][label][seg + 1][j + 1].val
                   = SegmentStepValue(f, seg, j * ForwardStride + 1, label)

\* C26 as stated: when every solver call returns exactly the declared fields,
\* the base-class get_checkpoints solves forward over all subintervals and
\* returns one starting field per subinterval: entry 0 the initial condition,
\* entry i+1 the projection of subinterval i's output into the space of
\* subinterval i+1.
BaseCheckpointsReturned ==
    (qoi_num_args \in {1, 2} /\ pc \notin {"start", "bc_solve"}) =>
       /\ pc = "done"
       /\ Len(calls) = num_subintervals
       /\ Len(checkpoints) = num_subintervals
       /\ checkpoints[1] = InitialCondition
       /\ \A seg \in 0 .. num_subintervals - 2 :
            checkpoints[seg + 2]
              = [f \in FieldSet |-> project(calls[seg + 1].ret[f], spaceOf[seg + 1], FALSE)]

\* C27 as stated: for a subinterval with timesteps, get_solve_blocks raises
\* the ValueError of its divisibility check exactly when the number of solve
\* blocks is not an integer multiple of the number of timesteps, and returns
\* the blocks otherwise.
RatioErrorIffNotMultiple ==
    (ratio_outcome \notin {"", "idle"} /\ ratio_timesteps > 0) =>
       /\ ratio_outcome \in {RatioError, "returned"}
       /\ ratio_outcome = RatioError <=> num_solve_blocks % ratio_timesteps # 0

\* C28 as stated: get_solve_blocks(field) returns exactly the solve blocks
\* recorded for that field.  For two distinct declared fields, also when one
\* name is contained in the other, no block is returned for both, and a block
\* tagged with one field's name is never returned for another field.
ReturnedBlocks(f) == Range(get_solve_blocks(tape, f, FALSE).blocks)
NoCrossFieldBlocks ==
    \A f \in FieldSet :
       /\ \A p \in ReturnedBlocks(f) : tape[p].tag = f
       /\ \A g \in FieldSet \ {f} : ReturnedBlocks(f) \cap ReturnedBlocks(g) = {}

\* C29: the 'Cannot extract solve block' branch of the adjoint_next
\* extraction is never taken.  Every export index j the loop iterates is
\* paired with the block at index j*stride, so j*stride+1 is at most the
\* number of solve blocks, and the record is either followed by another one
\* of the segment or the last of the segment.
CannotExtractError == "IndexError: Cannot extract solve block"
IteratedExports ==
    LET sb      == get_solve_blocks(tape, fields[fidx], TRUE).blocks
        stride  == timesteps_per_export * solves_per_timestep
        strided == (Len(sb) + stride - 1) \div stride
    IN  {<<j, Len(sb)>> : j \in 0 .. Min(ExportsPerSubinterval - 1, strided) - 1}
CannotExtractUnreachable ==
    /\ error # CannotExtractError
    /\ (pc = "extract" /\ fidx <= Len(fields)) =>
          \A e \in IteratedExports :
             LET next == e[1] * timesteps_per_export * solves_per_timestep + 1
             IN  next < e[2] \/ next = e[2]
\* A sweep over two segments of two timesteps, exported every timestep, ran to
\* the end: both cases were taken on each segment.
CannotExtractUnreachableWitness ==
    /\ Completed /\ ~steady
    /\ num_subintervals >= 2 /\ num_timesteps = 2 /\ timesteps_per_export = 1
    /\ \A f \in FieldSet : "adjoint_next" \in DOMAIN solutions[f]

\* C30 as stated: when the loop of metric_from_hessian has ended, for d = 2
\* and d = 3, its body has run exactly once for every index pair (i, j) with
\* 0 <= i < j < d and for no other pair that changes B, so the whole Hessian
\* is symmetric, each off-diagonal pair holding the mean of the two entries
\* passed in.
UpperPairs(d) == {p \in HessianIndex(d) : p[1] < p[2]}
WholeHessianSymmetrised ==
    loop_pc = "solve" =>
       \A p \in UpperPairs(hessian_d) :
          /\ Cardinality({k \in DOMAIN visited : visited[k] = p}) = 1
          /\ hessian_B[p] = (hessian_B0[p] + hessian_B0[<<p[2], p[1]>>]) \div 2
          /\ hessian_B[<<p[2], p[1]>>] = hessian_B[p]

====
